---- MODULE Spec2Model ----
(***************************************************************************)
(* RIS_Scraper: the full export (ris_law/full_export.py, ris_law/api.py),  *)
(* the ABGB index probe (ris_abgb/index_scraper.py) and the fetch layer    *)
(* (ris_law/http_client.py, ris_law/html_parser.py,                        *)
(* ris_law/tools/enrich_fallbacks.py) as state machines.                   *)
(*                                                                         *)
(* Data representation                                                     *)
(*   - a NOR document id "NOR<digits>" is its number; 0 is the empty id "" *)
(*   - a text is a sequence of characters (" " is whitespace)              *)
(*   - a URL is a record: the per-unit page NormDokument.wxe?Paragraf=n,   *)
(*     the canonical document page .../NORx/NORx.html, or the empty URL    *)
(*   - a paragraph id is a record [sign, num, suf]: "§ 12a" is             *)
(*     [sign |-> "§ ", num |-> 12, suf |-> "a"], "12" has sign ""          *)
(***************************************************************************)
EXTENDS Integers, Sequences, FiniteSets, TLC

VARIABLES
    mode,                  \* "numeric": build_complete_numeric, "mixed": the mixed-law loop of write_jsonl_full
    pc,                    \* position in the export: "loop", "docs", "done", "raised"
    n,                     \* loop variable of build_complete_numeric
    start_num, end_num,    \* the range of build_complete_numeric, after the fallback
    toc_set,               \* normalised TOC identifiers
    seen_nor,              \* NOR ids already processed in this run
    nor_urls,              \* documents resolved for the current number
    doc_i,                 \* position of `for nu in nor_urls`
    wrote_for_this_number,
    total,                 \* records counted (total / written)
    out,                   \* the records written to the output file, in order
    http_log,              \* network events of the export loop: GET url / sleep(delay)
    docrefs, idx           \* mixed-law loop: the document references and the position in them

VARIABLES
    ix_pc,                 \* fetch_abgb_index_docrefs: "base", "letters", "end_n", "done", "raised"
    start_par, max_par, consecutive_miss_limit,
    ix_n,                  \* loop variable n of the probe
    ix_ch,                 \* position in letters (1 = "a")
    all_nors, misses, last_hit_at, found_any_for_n,
    probes,                \* the requests made for the current number, base first
    net                    \* requests and sleeps of the current number

VARIABLES
    h_fn,                  \* which fetch function runs
    h_tries,               \* retries / tries
    h_min_len,             \* min_content_length of HttpClient.get (-1: None)
    h_pc,                  \* "loop", "returned", "raised"
    h_attempt,             \* the pass of the retry loop, from 1
    h_last,                \* last_error / last / last_exc ("" for None)
    h_exc,                 \* the exception the function raised
    h_log                  \* requests and sleeps of the call

VARIABLES
    p_pc,                  \* _smart_probe_single_context: "exp", "bin", "done"
    p_B,                   \* the existence function: exists(k) = (k <= p_B); -1: any function
    low, high, miss,       \* the exponential phase
    lo, hi,                \* the binary phase
    p_ret,                 \* the returned boundary (-1: None)
    p_probes,              \* the unit numbers probed, in order
    p_answers              \* the answers of _unit_exists_with_context: pairs <<number, ok>>

VARIABLES
    s_pc,                  \* smart_probe_upper_bound: "loop", "done"
    s_disc,                \* len(contexts): the discovered contexts handed in
    s_i,                   \* position of `for kind, ctx in all_contexts`, from 1
    tried, best,
    s_results,             \* the boundaries the searched contexts returned
    s_last,                \* what the last pass of the loop did
    s_ret                  \* the returned boundary (-1: None)

VARIABLES
    e_pc,                  \* enrich_laws: "loop", "done"
    e_len,                 \* len(data)
    e_i,                   \* position of `for i, law in enumerate(data, 1)`
    overwrite_existing,
    changed, unchanged,
    e_last                 \* the law handled by the last pass: what was read, found and stored

VARIABLES
    c_fn,                  \* "_discover_probe_contexts" or "collect_all_units"
    c_pc,                  \* "loop", "done"
    max_pages,
    queue, visited,
    contexts, seen_pairs,  \* _discover_probe_contexts only
    c_fetched              \* the URLs requested, in order

VARIABLES
    t_fn,                  \* parse_toc of "ris_law" or of "ris_abgb"
    t_pc,                  \* "call", "returned"
    html,                  \* the TOC page: its unit links, text mentions and range
    include_aufgehoben,
    t_ids, t_auf           \* the two lists parse_toc returns

VARIABLES
    w_fn,                  \* "build_complete_numeric" or "write_jsonl_from_docrefs"
    w_pc,                  \* "open", "closed" (the with block was left), "killed"
    w_recs,                \* the sizes in bytes of the lines handed to write(), in order
    w_pending,             \* the lines still held in the buffer of the file object
    w_disk                 \* the lines that reached the file

VARIABLES
    x_pc,                  \* "call", "returned"
    x_page,                \* the page: its candidate containers and its whole text
    x_ret                  \* the dict fetch_paragraph_text_via_html returns

VARIABLES
    given_end,               \* the end_num argument of build_complete_numeric, None if omitted
    toc_size               \* the number of entries the TOC returned

VARIABLES
    k_pc,                  \* collect_laws: "ended", "first", "loop", "dump", "replace"
    k_laws,                \* laws: the pages handled into it, in order
    k_last_page,           \* last_page
    k_page,                \* page of the for loop
    effective_pages,
    k_why,                 \* how the last run ended: "returned", "page_failed", "interrupted"
    k_runs,                \* the runs started
    state_file,            \* STATE_FILE: NoFile or [last_page, laws]
    tmp_file               \* STATE_FILE + ".tmp"

VARIABLES
    r_src,                 \* the source: what it answers for each unit page and document
    r_pc,                  \* "run1", "run2", "done"
    r_n,                   \* n of the running export
    r_seen,                \* seen_nor of the running export
    r_clock,               \* the time, read for retrieved_at
    r_out1, r_out2         \* the records of the first and of the second run

export_vars == <<mode, pc, n, start_num, end_num, toc_set, seen_nor, nor_urls,
                 doc_i, wrote_for_this_number, total, out, http_log, docrefs, idx>>

index_vars == <<ix_pc, start_par, max_par, consecutive_miss_limit, ix_n, ix_ch, all_nors,
                misses, last_hit_at, found_any_for_n, probes, net>>

http_vars == <<h_fn, h_tries, h_min_len, h_pc, h_attempt, h_last, h_exc, h_log>>

probe_vars == <<p_pc, p_B, low, high, miss, lo, hi, p_ret, p_probes, p_answers>>

\* the state of the boundary tool (ris_law/tools/enrich_fallbacks.py) and of the TOC parsers
smart_vars == <<s_pc, s_disc, s_i, tried, best, s_results, s_last, s_ret>>

enrich_vars == <<e_pc, e_len, e_i, overwrite_existing, changed, unchanged, e_last>>

crawl_vars == <<c_fn, c_pc, max_pages, queue, visited, contexts, seen_pairs, c_fetched>>

toc_vars == <<t_fn, t_pc, html, include_aufgehoben, t_ids, t_auf>>

tools_vars == <<probe_vars, smart_vars, enrich_vars, crawl_vars, toc_vars>>

writer_vars == <<w_fn, w_pc, w_recs, w_pending, w_disk>>

\* the output file, the page extraction, the law index
extract_vars == <<x_pc, x_page, x_ret>>

collect_vars == <<k_pc, k_laws, k_last_page, k_page, effective_pages, k_why, k_runs,
                  state_file, tmp_file>>

twice_vars == <<r_src, r_pc, r_n, r_seen, r_clock, r_out1, r_out2>>

\* the arguments of the call, which no step changes
call_vars == <<given_end, toc_size>>

aux_vars == <<writer_vars, extract_vars, call_vars, collect_vars, twice_vars>>

core_vars == <<export_vars, index_vars, http_vars>>

\* what a step of one part of the program leaves alone
ExportOnly == UNCHANGED <<index_vars, http_vars, tools_vars, aux_vars>>

IndexOnly == UNCHANGED <<export_vars, http_vars, tools_vars, aux_vars>>

FetchOnly == UNCHANGED <<export_vars, index_vars, tools_vars, aux_vars>>

ProbeOnly == UNCHANGED <<core_vars, smart_vars, enrich_vars, crawl_vars, toc_vars, aux_vars>>

SmartOnly == UNCHANGED <<core_vars, probe_vars, enrich_vars, crawl_vars, toc_vars, aux_vars>>

EnrichOnly == UNCHANGED <<core_vars, probe_vars, smart_vars, crawl_vars, toc_vars, aux_vars>>

CrawlOnly == UNCHANGED <<core_vars, probe_vars, smart_vars, enrich_vars, toc_vars, aux_vars>>

TocOnly == UNCHANGED <<core_vars, probe_vars, smart_vars, enrich_vars, crawl_vars, aux_vars>>

WriterOnly == UNCHANGED <<core_vars, tools_vars, extract_vars, call_vars, collect_vars, twice_vars>>

ExtractOnly == UNCHANGED <<core_vars, tools_vars, writer_vars, call_vars, collect_vars, twice_vars>>

CollectOnly == UNCHANGED <<core_vars, tools_vars, writer_vars, extract_vars, call_vars, twice_vars>>

TwiceOnly == UNCHANGED <<core_vars, tools_vars, writer_vars, extract_vars, call_vars, collect_vars>>

----------------------------------------------------------------------------
\* Bounds of the model.

\* largest retries / tries of a fetch
MaxTries == 3

\* max_par of the index probe
MaxPar == 2

\* len(letters) of the index probe
MaxLetters == 4

\* largest consecutive_miss_limit of the index probe
MaxMissLimit == 2

\* largest paragraph number of a run
MaxNum == 2

\* largest number of document references of a mixed-law run
MaxRefs == 2

\* the NOR document ids the source can serve
NORS == {1, 2}

\* the texts a page can yield before .strip()
RawTexts == {<< >>, <<" ">>, <<"x">>, <<" ", "x", " ">>}

----------------------------------------------------------------------------
\* Strings and identifiers.

RECURSIVE lstrip(_)
lstrip(s) == IF s # << >> /\ Head(s) = " " THEN lstrip(Tail(s)) ELSE s

RECURSIVE rstrip(_)
rstrip(s) == IF s # << >> /\ s[Len(s)] = " " THEN rstrip(SubSeq(s, 1, Len(s) - 1)) ELSE s

\* str.strip()
strip(s) == rstrip(lstrip(s))

\* _norm_display: "1" -> "§ 1", "§1" -> "§ 1"; an id with a letter suffix that
\* already starts with "§" is left as it is (the regex matches digits only).
_norm_display(pid) ==
    IF pid.sign = "" THEN [pid EXCEPT !.sign = "§ "]
    ELSE IF pid.suf = "" THEN [pid EXCEPT !.sign = "§ "]
    ELSE pid

\* pid_disp = _norm_display(f"{n}")
PidDisp(k) == _norm_display([sign |-> "", num |-> k, suf |-> ""])

NoUrl == [kind |-> "none", par |-> 0, nor |-> 0]

\* _make_toc_url(gesetzesnummer, n)
_make_toc_url(k) == [kind |-> "toc", par |-> k, nor |-> 0]

\* f"{base}/{nor}/{nor}.html"
NorUrl(nor) == [kind |-> "nor", par |-> 0, nor |-> nor]

\* _RX_NOR.search(nu): the NOR id in a URL, 0 ("") when there is none
UrlNor(u) == u.nor

\* sorted(nors)
RECURSIVE SortedSeq(_)
SortedSeq(S) ==
    IF S = {} THEN << >>
    ELSE LET m == CHOOSE x \in S : \A y \in S : x <= y
         IN  <<m>> \o SortedSeq(S \ {m})

\* resolve_nor_urls_from_toc_url, given the NOR ids found in the page
resolve_nor_urls_from_toc_url(toc_url, nors) ==
    IF nors = {} THEN <<toc_url>>
    ELSE [i \in 1..Cardinality(nors) |-> NorUrl(SortedSeq(nors)[i])]

\* infer_max_numeric_from_toc
infer_max_numeric_from_toc(paragraphs) ==
    LET nums == {p.num : p \in paragraphs}
        mx   == IF nums = {} THEN 0 ELSE CHOOSE x \in nums : \A y \in nums : y <= x
    IN  IF mx > 0 THEN mx ELSE 1

----------------------------------------------------------------------------
\* Records.

Rec(unit, status, text, url, nor) ==
    [unit |-> unit, status |-> status, text |-> text, url |-> url, document_number |-> nor]

\* a classification that forgets the empty-text branch
FetchedStatus_always_ok(text) == "ok"

\* the status of a fetched document
FetchedStatus(text) == IF text = << >> THEN "empty_text" ELSE "ok"

\* variant: an empty text is reported as not_found
MixedStatus_not_found(text) == IF text = << >> THEN "not_found" ELSE "ok"
\* the mixed-law loop: status="ok" if text else "resolve_failed"
MixedStatus(text) == IF text = << >> THEN "resolve_failed" ELSE "ok"

Get(u) == [ev |-> "GET", url |-> u]
Sleep == [ev |-> "sleep", url |-> NoUrl]

----------------------------------------------------------------------------
\* The inputs of a run.

\* fallback_end_for(gesetzesnummer) or 1000
DEFAULT_END == 1000

\* toc["paragraphs"] as parse_toc returns them ("1", "1a", ...), one with a "§"
TocUniverse ==
    {[sign |-> "", num |-> k, suf |-> ""] : k \in 1..MaxNum}
    \cup {[sign |-> "", num |-> 1, suf |-> "a"], [sign |-> "§", num |-> MaxNum, suf |-> "a"]}

\* end_num: Optional[int]; -1 stands for None
EndArgs == {-1} \cup (1..MaxNum)

\* fallback_end_for: Optional[int]; -1 stands for None
FallbackEnds == {-1} \cup (1..MaxNum)

\* the document references _build_docrefs_from_toc(..., "nor") can return: NOR
\* documents, each id once, and unit pages without an id
RefUniverse ==
    {[id |-> k, url |-> NorUrl(k)] : k \in NORS}
    \cup {[id |-> 0, url |-> _make_toc_url(k)] : k \in 1..MaxNum}

DocrefLists ==
    {r \in UNION {[1..l -> RefUniverse] : l \in 0..MaxRefs} :
        \A i, j \in 1..Len(r) : (i # j /\ r[i].id # 0) => r[i].id # r[j].id}

\* steps 1-3 of build_complete_numeric: the TOC set and the end of the range
TocList(paragraphs) == {_norm_display(p) : p \in paragraphs}

UseFallback(paragraphs) == Cardinality(paragraphs) <= 2

FallbackEnd(fb) == IF fb > 0 THEN fb ELSE DEFAULT_END

ResolvedEnd(paragraphs, end_arg, fb) ==
    IF UseFallback(paragraphs) THEN FallbackEnd(fb)
    ELSE IF end_arg = -1 THEN infer_max_numeric_from_toc(TocList(paragraphs))
    ELSE end_arg

ResolvedToc(paragraphs, fb) ==
    IF UseFallback(paragraphs) THEN {PidDisp(i) : i \in 1..FallbackEnd(fb)}
    ELSE TocList(paragraphs)

\* build_complete_numeric at the head of its loop (the TOC is fetched, the
\* range resolved, the file opened). Runs whose range ends above MaxNum are
\* outside the model's bounds.
InitNumeric ==
    \E paragraphs \in SUBSET TocUniverse, s \in 1..MaxNum, e \in EndArgs, fb \in FallbackEnds :
        /\ ResolvedEnd(paragraphs, e, fb) <= MaxNum
        /\ mode = "numeric"
        /\ pc = "loop"
        /\ start_num = s
        /\ end_num = ResolvedEnd(paragraphs, e, fb)
        /\ given_end = e
        /\ toc_size = Cardinality(paragraphs)
        /\ toc_set = ResolvedToc(paragraphs, fb)
        /\ n = s
        /\ seen_nor = {}
        /\ nor_urls = << >>
        /\ doc_i = 1
        /\ wrote_for_this_number = FALSE
        /\ total = 0
        /\ out = << >>
        /\ http_log = << >>
        /\ docrefs = << >>
        /\ idx = 1

\* the mixed-law branch of write_jsonl_full at the head of its loop
InitMixed ==
    \E refs \in DocrefLists :
        /\ mode = "mixed"
        /\ pc = "loop"
        /\ docrefs = refs
        /\ idx = 1
        /\ total = 0
        /\ out = << >>
        /\ http_log = << >>
        /\ start_num = 1
        /\ end_num = 0
        /\ toc_set = {}
        /\ n = 1
        /\ seen_nor = {}
        /\ nor_urls = << >>
        /\ doc_i = 1
        /\ wrote_for_this_number = FALSE
        /\ given_end = -1
        /\ toc_size = 0

InitExport == InitNumeric \/ InitMixed

----------------------------------------------------------------------------
\* build_complete_numeric: one action per path through the loop body.

InRange == mode = "numeric" /\ pc = "loop" /\ n <= end_num

\* a placeholder branch that sleeps like the other branches do
UnitNotInToc_sleeps ==
    /\ InRange
    /\ PidDisp(n) \notin toc_set
    /\ out' = Append(out, Rec(n, "not_in_toc_geltende_fassung", << >>, NoUrl, 0))
    /\ http_log' = Append(http_log, Sleep)
    /\ total' = total + 1
    /\ n' = n + 1
    /\ UNCHANGED <<mode, pc, start_num, end_num, toc_set, seen_nor, nor_urls,
                   doc_i, wrote_for_this_number, docrefs, idx>>
    /\ ExportOnly

\* if pid_disp not in toc_set: placeholder, continue
UnitNotInToc ==
    /\ InRange
    /\ PidDisp(n) \notin toc_set
    /\ out' = Append(out, Rec(n, "not_in_toc_geltende_fassung", << >>, NoUrl, 0))
    /\ total' = total + 1
    /\ n' = n + 1
    /\ UNCHANGED <<mode, pc, start_num, end_num, toc_set, seen_nor, nor_urls,
                   doc_i, wrote_for_this_number, http_log, docrefs, idx>>
    /\ ExportOnly

\* resolve_nor_urls_from_toc_url raises: placeholder, sleep, continue
ResolveFailed ==
    /\ InRange
    /\ PidDisp(n) \in toc_set
    /\ http_log' = http_log \o <<Get(_make_toc_url(n)), Sleep>>
    /\ out' = Append(out, Rec(n, "resolve_failed: e", << >>, _make_toc_url(n), 0))
    /\ total' = total + 1
    /\ n' = n + 1
    /\ UNCHANGED <<mode, pc, start_num, end_num, toc_set, seen_nor, nor_urls,
                   doc_i, wrote_for_this_number, docrefs, idx>>
    /\ ExportOnly

\* resolve_nor_urls_from_toc_url returns: enter the document loop
ResolveOk ==
    /\ InRange
    /\ PidDisp(n) \in toc_set
    /\ \E nors \in SUBSET NORS :
          nor_urls' = resolve_nor_urls_from_toc_url(_make_toc_url(n), nors)
    /\ http_log' = Append(http_log, Get(_make_toc_url(n)))
    /\ doc_i' = 1
    /\ wrote_for_this_number' = FALSE
    /\ pc' = "docs"
    /\ UNCHANGED <<mode, n, start_num, end_num, toc_set, seen_nor, total, out,
                   docrefs, idx>>
    /\ ExportOnly

InDocs == mode = "numeric" /\ pc = "docs" /\ doc_i <= Len(nor_urls)

\* if nor and nor in seen_nor: continue
AlreadySeen(nu) == UrlNor(nu) # 0 /\ UrlNor(nu) \in seen_nor

DocSkipSeen ==
    /\ InDocs
    /\ AlreadySeen(nor_urls[doc_i])
    /\ doc_i' = doc_i + 1
    /\ UNCHANGED <<mode, pc, n, start_num, end_num, toc_set, seen_nor, nor_urls,
                   wrote_for_this_number, total, out, http_log, docrefs, idx>>
    /\ ExportOnly

\* fetch_paragraph_text_via_html raises: fetch_failed record, sleep, continue
DocFetchFailed ==
    /\ InDocs
    /\ ~AlreadySeen(nor_urls[doc_i])
    /\ LET nu == nor_urls[doc_i] IN
          /\ http_log' = http_log \o <<Get(nu), Sleep>>
          /\ out' = Append(out, Rec(n, "fetch_failed: e", << >>, nu, UrlNor(nu)))
    /\ total' = total + 1
    /\ doc_i' = doc_i + 1
    /\ UNCHANGED <<mode, pc, n, start_num, end_num, toc_set, seen_nor, nor_urls,
                   wrote_for_this_number, docrefs, idx>>
    /\ ExportOnly

\* nor = (parsed.get("nor") or nor).strip()
ParsedNor(page_nor, url_nor) == IF page_nor # 0 THEN page_nor ELSE url_nor

\* if nor: seen_nor.add(nor)
SeenAfter(seen, nor) == IF nor # 0 THEN seen \cup {nor} ELSE seen

\* _RX_NOR.search(html) of the fetched page: any id for a document page; the
\* unit page is fetched only when resolve found no id in it, and is taken to
\* be unchanged between the two requests of one iteration
PageNors(nu) == IF UrlNor(nu) = 0 THEN {0} ELSE {0} \cup NORS

\* fetch_paragraph_text_via_html returns: empty_text or ok record, sleep
DocFetched ==
    /\ InDocs
    /\ ~AlreadySeen(nor_urls[doc_i])
    /\ \E raw \in RawTexts, page_nor \in PageNors(nor_urls[doc_i]) :
          LET nu   == nor_urls[doc_i]
              text == strip(raw)
              nor  == ParsedNor(page_nor, UrlNor(nu))
          IN  /\ seen_nor' = SeenAfter(seen_nor, nor)
              /\ out' = Append(out, Rec(n, FetchedStatus(text), text, nu, nor))
              /\ http_log' = http_log \o <<Get(nu), Sleep>>
    /\ total' = total + 1
    /\ wrote_for_this_number' = TRUE
    /\ doc_i' = doc_i + 1
    /\ UNCHANGED <<mode, pc, n, start_num, end_num, toc_set, nor_urls, docrefs, idx>>
    /\ ExportOnly

\* a loop body without the closing placeholder
NeedsPlaceholder_never(wrote) == FALSE

\* if not wrote_for_this_number: no_nor_found placeholder
NeedsPlaceholder(wrote) == ~wrote

\* the end of the loop body: the placeholder, then the next number
FinishUnit ==
    /\ mode = "numeric" /\ pc = "docs" /\ doc_i > Len(nor_urls)
    /\ IF NeedsPlaceholder(wrote_for_this_number)
         THEN /\ out' = Append(out, Rec(n, "no_nor_found", << >>, _make_toc_url(n), 0))
              /\ total' = total + 1
         ELSE UNCHANGED <<out, total>>
    /\ n' = n + 1
    /\ pc' = "loop"
    /\ UNCHANGED <<mode, start_num, end_num, toc_set, seen_nor, nor_urls,
                   doc_i, wrote_for_this_number, http_log, docrefs, idx>>
    /\ ExportOnly

\* return total
ReturnTotal ==
    /\ mode = "numeric" /\ pc = "loop" /\ n > end_num
    /\ pc' = "done"
    /\ UNCHANGED <<mode, n, start_num, end_num, toc_set, seen_nor, nor_urls,
                   doc_i, wrote_for_this_number, total, out, http_log, docrefs, idx>>
    /\ ExportOnly

----------------------------------------------------------------------------
\* write_jsonl_full, mixed-law branch: for idx, ref in enumerate(docrefs).

InMixed == mode = "mixed" /\ pc = "loop" /\ idx <= Len(docrefs)

\* fetch_paragraph_text_via_html returns: one record, sleep
MixedFetched ==
    /\ InMixed
    /\ \E raw \in RawTexts, page_nor \in {0} \cup NORS :
          LET ref  == docrefs[idx]
              text == strip(raw)
              nor  == ParsedNor(page_nor, ref.id)
          IN  /\ out' = Append(out, Rec(0, MixedStatus(text), text, ref.url, nor))
              /\ http_log' = http_log \o <<Get(ref.url), Sleep>>
    /\ total' = total + 1
    /\ idx' = idx + 1
    /\ UNCHANGED <<mode, pc, n, start_num, end_num, toc_set, seen_nor, nor_urls,
                   doc_i, wrote_for_this_number, docrefs>>
    /\ ExportOnly

\* fetch_paragraph_text_via_html raises: nothing in the loop catches it
MixedFetchRaises ==
    /\ InMixed
    /\ http_log' = Append(http_log, Get(docrefs[idx].url))
    /\ pc' = "raised"
    /\ UNCHANGED <<mode, n, start_num, end_num, toc_set, seen_nor, nor_urls,
                   doc_i, wrote_for_this_number, total, out, docrefs, idx>>
    /\ ExportOnly

\* return written
MixedReturn ==
    /\ mode = "mixed" /\ pc = "loop" /\ idx > Len(docrefs)
    /\ pc' = "done"
    /\ UNCHANGED <<mode, n, start_num, end_num, toc_set, seen_nor, nor_urls,
                   doc_i, wrote_for_this_number, total, out, http_log, docrefs, idx>>
    /\ ExportOnly

ExportNext ==
    \/ UnitNotInToc
    \/ ResolveFailed
    \/ ResolveOk
    \/ DocSkipSeen
    \/ DocFetchFailed
    \/ DocFetched
    \/ FinishUnit
    \/ ReturnTotal
    \/ MixedFetched
    \/ MixedFetchRaises
    \/ MixedReturn

----------------------------------------------------------------------------
\* fetch_abgb_index_docrefs (ris_abgb/index_scraper.py): the brute-force probe.
\* A request for § n or § n<letter> ends in one of
\*   "page"       a response page; nor is the id _extract_nor finds (0: none)
\*   "httperror"  _get raises requests.HTTPError (raise_for_status)
\*   "exception"  any other exception (timeout, connection error)
\* probes holds the requests made for the current number; net the requests and
\* sleeps since the pause that ended the previous number.

IxOutcomes ==
    {[res |-> "page", nor |-> k] : k \in {0} \cup NORS}
    \cup {[res |-> "httperror", nor |-> 0], [res |-> "exception", nor |-> 0]}

\* a suffix loop that treats an HTTP error like any other exception
BreaksSuffixLoop_never(o) == FALSE

\* except requests.HTTPError: break
BreaksSuffixLoop(o) == o.res = "httperror"

\* if nor: all_nors.add(nor)
NorsAfter(nors, o) == IF o.res = "page" /\ o.nor # 0 THEN nors \cup {o.nor} ELSE nors

FoundAfter(found, o) == found \/ (o.res = "page" /\ o.nor # 0)

InitIndex ==
    \E sp \in 0..1, lim \in 1..MaxMissLimit :
        /\ ix_pc = "base"
        /\ start_par = sp
        /\ max_par = MaxPar
        /\ consecutive_miss_limit = lim
        /\ ix_n = sp
        /\ ix_ch = 1
        /\ all_nors = {}
        /\ misses = 0
        /\ last_hit_at = sp - 1
        /\ found_any_for_n = FALSE
        /\ probes = << >>
        /\ net = << >>

\* 1) the base number: found_any_for_n = False, then the request
ProbeBase ==
    /\ ix_pc = "base" /\ ix_n <= max_par
    /\ \E o \in IxOutcomes :
          /\ all_nors' = NorsAfter(all_nors, o)
          /\ found_any_for_n' = FoundAfter(FALSE, o)
          /\ probes' = <<[ch |-> 0, res |-> o.res, nor |-> o.nor]>>
          /\ net' = net \o (IF o.res = "exception" THEN <<"GET", "sleep_half">> ELSE <<"GET">>)
    /\ ix_ch' = 1
    /\ ix_pc' = IF MaxLetters >= 1 THEN "letters" ELSE "end_n"
    /\ UNCHANGED <<start_par, max_par, consecutive_miss_limit, ix_n, misses, last_hit_at>>
    /\ IndexOnly

\* 2) one pass of `for ch in letters`
ProbeLetter ==
    /\ ix_pc = "letters" /\ ix_ch <= MaxLetters
    /\ \E o \in IxOutcomes :
          /\ all_nors' = NorsAfter(all_nors, o)
          /\ found_any_for_n' = FoundAfter(found_any_for_n, o)
          /\ probes' = Append(probes, [ch |-> ix_ch, res |-> o.res, nor |-> o.nor])
          /\ net' = net \o (CASE o.res = "page" -> <<"GET", "sleep">>
                              [] o.res = "httperror" -> <<"GET">>
                              [] OTHER -> <<"GET", "sleep_half">>)
          /\ ix_pc' = IF BreaksSuffixLoop(o) \/ ix_ch = MaxLetters THEN "end_n" ELSE "letters"
    /\ ix_ch' = ix_ch + 1
    /\ UNCHANGED <<start_par, max_par, consecutive_miss_limit, ix_n, misses, last_hit_at>>
    /\ IndexOnly

MissesAfter == IF found_any_for_n THEN 0 ELSE misses + 1

LastHitAfter == IF found_any_for_n THEN ix_n ELSE last_hit_at

\* if misses >= consecutive_miss_limit and n > last_hit_at + consecutive_miss_limit: break
AbortProbe == MissesAfter >= consecutive_miss_limit /\ ix_n > LastHitAfter + consecutive_miss_limit

\* the end of the loop body: the miss counter, the abort heuristic, the pause
EndOfNumber ==
    /\ ix_pc = "end_n"
    /\ misses' = MissesAfter
    /\ last_hit_at' = LastHitAfter
    /\ IF AbortProbe
         THEN /\ ix_pc' = IF all_nors = {} THEN "raised" ELSE "done"
              /\ UNCHANGED <<ix_n, net, probes>>
         ELSE /\ ix_pc' = "base"
              /\ ix_n' = ix_n + 1
              /\ net' = <<"sleep">>
              /\ probes' = << >>
    /\ UNCHANGED <<start_par, max_par, consecutive_miss_limit, ix_ch, all_nors, found_any_for_n>>
    /\ IndexOnly

\* the range is exhausted: RuntimeError when nothing was found, else the refs
ProbeReturn ==
    /\ ix_pc = "base" /\ ix_n > max_par
    /\ ix_pc' = IF all_nors = {} THEN "raised" ELSE "done"
    /\ UNCHANGED <<start_par, max_par, consecutive_miss_limit, ix_n, ix_ch, all_nors,
                   misses, last_hit_at, found_any_for_n, probes, net>>
    /\ IndexOnly

IndexNext ==
    \/ ProbeBase
    \/ ProbeLetter
    \/ EndOfNumber
    \/ ProbeReturn

----------------------------------------------------------------------------
\* The fetch layer: HttpClient.get (ris_law/http_client.py), _get_with_retry
\* (ris_law/html_parser.py) and http_get (ris_law/tools/enrich_fallbacks.py).
\* One action is one pass of the function's retry loop: the request, what the
\* function makes of the answer, the sleep, and on the last pass the code
\* after the loop.

\* if r.text and len(r.text) > 500
MIN_TEXT_LEN == 500

\* the answers of the server to one request
Responses ==
    {[kind |-> "response", status |-> 200, len |-> l] :
        l \in {0, MIN_TEXT_LEN - 1, MIN_TEXT_LEN, MIN_TEXT_LEN + 1}}
    \cup {[kind |-> "response", status |-> 404, len |-> 0],
          [kind |-> "response", status |-> 500, len |-> 0],
          [kind |-> "timeout", status |-> 0, len |-> 0],
          [kind |-> "connection", status |-> 0, len |-> 0]}

\* min_content_length: Optional[int]; -1 stands for None
MinLens == {-1, MIN_TEXT_LEN}

\* the exception requests.get / raise_for_status raises for an answer, "" for none
RequestError(resp) ==
    CASE resp.kind = "timeout" -> "Timeout"
      [] resp.kind = "connection" -> "ConnectionError"
      [] resp.status >= 400 -> "HTTPError"
      [] OTHER -> ""

LogGet(resp, k) == [ev |-> "GET", kind |-> resp.kind, status |-> resp.status, len |-> resp.len, k |-> k]

\* time.sleep(<backoff for pass k>)
LogSleep(k) == [ev |-> "sleep", kind |-> "", status |-> 0, len |-> 0, k |-> k]

InitHttp ==
    \E f \in {"HttpClient.get", "_get_with_retry", "http_get", "fetch_toc_html"},
       t \in 1..MaxTries, m \in MinLens :
        /\ h_fn = f
        /\ h_tries = t
        /\ h_min_len = IF f = "HttpClient.get" THEN m ELSE -1
        /\ h_pc = "loop"
        /\ h_attempt = 1
        /\ h_last = ""
        /\ h_exc = ""
        /\ h_log = << >>

\* HttpClient.get: for attempt in range(1, self.retries + 1)
HttpClientError(resp, min_len) ==
    IF RequestError(resp) # "" THEN RequestError(resp)
    ELSE IF min_len # -1 /\ (resp.len = 0 \/ resp.len < min_len) THEN "ValueError"
    ELSE ""

HttpClientGet ==
    /\ h_fn = "HttpClient.get" /\ h_pc = "loop" /\ h_attempt <= h_tries
    /\ \E resp \in Responses :
          LET err == HttpClientError(resp, h_min_len) IN
          IF err = ""
            THEN /\ h_log' = Append(h_log, LogGet(resp, h_attempt))
                 /\ h_pc' = "returned"
                 /\ UNCHANGED <<h_last, h_exc>>
            ELSE /\ h_last' = err
                 /\ IF h_attempt < h_tries
                      THEN /\ h_log' = h_log \o <<LogGet(resp, h_attempt), LogSleep(h_attempt)>>
                           /\ UNCHANGED <<h_pc, h_exc>>
                      ELSE /\ h_log' = Append(h_log, LogGet(resp, h_attempt))
                           /\ h_pc' = "raised"
                           /\ h_exc' = "RisFetchError"
    /\ h_attempt' = h_attempt + 1
    /\ UNCHANGED <<h_fn, h_tries, h_min_len>>
    /\ FetchOnly

\* _get_with_retry: for i in range(tries)
GetWithRetry ==
    /\ h_fn = "_get_with_retry" /\ h_pc = "loop" /\ h_attempt <= h_tries
    /\ \E resp \in Responses :
          LET err  == RequestError(resp)
              last == IF err # "" THEN err ELSE h_last
          IN
          IF err = "" /\ resp.len > MIN_TEXT_LEN
            THEN /\ h_log' = Append(h_log, LogGet(resp, h_attempt))
                 /\ h_pc' = "returned"
                 /\ UNCHANGED <<h_last, h_exc>>
            ELSE /\ h_last' = last
                 /\ h_log' = h_log \o <<LogGet(resp, h_attempt), LogSleep(h_attempt)>>
                 /\ IF h_attempt < h_tries
                      THEN UNCHANGED <<h_pc, h_exc>>
                      ELSE /\ h_pc' = "raised"
                           /\ h_exc' = IF last # "" THEN last ELSE "RuntimeError"
    /\ h_attempt' = h_attempt + 1
    /\ UNCHANGED <<h_fn, h_tries, h_min_len>>
    /\ FetchOnly

\* if r.status_code == 404: raise NotFound404
Is404(resp) == resp.kind = "response" /\ resp.status = 404

\* http_get: for i in range(tries)
HttpGet ==
    /\ h_fn = "http_get" /\ h_pc = "loop" /\ h_attempt <= h_tries
    /\ \E resp \in Responses :
          LET err == RequestError(resp) IN
          IF Is404(resp)
            THEN /\ h_log' = Append(h_log, LogGet(resp, h_attempt))
                 /\ h_pc' = "raised"
                 /\ h_exc' = "NotFound404"
                 /\ UNCHANGED h_last
            ELSE IF err = ""
            THEN /\ h_log' = Append(h_log, LogGet(resp, h_attempt))
                 /\ h_pc' = "returned"
                 /\ UNCHANGED <<h_last, h_exc>>
            ELSE /\ h_last' = err
                 /\ h_log' = h_log \o <<LogGet(resp, h_attempt), LogSleep(h_attempt)>>
                 /\ IF h_attempt < h_tries
                      THEN UNCHANGED <<h_pc, h_exc>>
                      ELSE /\ h_pc' = "raised"
                           /\ h_exc' = err
    /\ h_attempt' = h_attempt + 1
    /\ UNCHANGED <<h_fn, h_tries, h_min_len>>
    /\ FetchOnly

\* fetch_toc_html: if r.status_code == 200 and text_len > 2000
TOC_MIN_LEN == 2000

\* the answers of the server to one request for the TOC page
TocResponses ==
    {[kind |-> "response", status |-> 200, len |-> l] : l \in {0, TOC_MIN_LEN, TOC_MIN_LEN + 1}}
    \cup {[kind |-> "response", status |-> 404, len |-> 0],
          [kind |-> "response", status |-> 500, len |-> 0],
          [kind |-> "timeout", status |-> 0, len |-> 0],
          [kind |-> "connection", status |-> 0, len |-> 0]}

\* except requests.RequestException: requests.get raised, there is no response
IsRequestException(resp) == resp.kind \in {"timeout", "connection"}

\* fetch_toc_html (ris_law/toc_parser.py): for i in range(tries); `last` is
\* set anew in every pass, so after the loop it is the answer of the last pass
FetchTocHtml ==
    /\ h_fn = "fetch_toc_html" /\ h_pc = "loop" /\ h_attempt <= h_tries
    /\ \E resp \in TocResponses :
          IF ~IsRequestException(resp) /\ resp.status = 200 /\ resp.len > TOC_MIN_LEN
            THEN /\ h_log' = Append(h_log, LogGet(resp, h_attempt))
                 /\ h_pc' = "returned"
                 /\ UNCHANGED h_exc
            ELSE /\ h_log' = h_log \o <<LogGet(resp, h_attempt), LogSleep(h_attempt)>>
                 /\ IF h_attempt < h_tries
                      THEN UNCHANGED <<h_pc, h_exc>>
                      ELSE IF IsRequestException(resp)
                        \* last is None
                        THEN h_pc' = "raised" /\ h_exc' = "RuntimeError"
                      ELSE IF resp.status >= 400
                        \* last.raise_for_status()
                        THEN h_pc' = "raised" /\ h_exc' = "HTTPError"
                        \* return last.text
                        ELSE h_pc' = "returned" /\ UNCHANGED h_exc
    /\ h_attempt' = h_attempt + 1
    /\ UNCHANGED <<h_fn, h_tries, h_min_len, h_last>>
    /\ FetchOnly

HttpNext ==
    \/ HttpClientGet
    \/ GetWithRetry
    \/ HttpGet
    \/ FetchTocHtml

----------------------------------------------------------------------------
\* The boundary search of one context: _smart_probe_single_context
\* (ris_law/tools/enrich_fallbacks.py). One action is one pass of a loop
\* together with the code that follows the loop when the pass leaves it.

PROBE_MAX == 4000

MISSING_STREAK_ABORT == 100

\* Optional[int]: None
None == -1

\* _unit_exists_with_context(gnr, unit_type, k, ctx): the answers possible for unit k
UnitExists(k) == IF p_B = -1 THEN BOOLEAN ELSE {k <= p_B}

\* mid = (lo + hi) // 2
Mid_upper(l, h) == h

Mid(l, h) == (l + h) \div 2

\* if high > PROBE_MAX: high = PROBE_MAX
CapHigh(h) == IF h > PROBE_MAX THEN PROBE_MAX ELSE h

InitProbe ==
    /\ p_pc = "exp"
    /\ p_B \in {-1} \cup (0..(PROBE_MAX + 1))
    /\ low = 0 /\ high = 1 /\ miss = 0
    /\ lo = 0 /\ hi = 0
    /\ p_ret = None
    /\ p_probes = << >> /\ p_answers = {}

\* the code after the exponential loop, entered with low = l and high = h
AfterExp(l, h) ==
    IF l = 0
      THEN /\ p_pc' = "done" /\ p_ret' = None
           /\ high' = h
           /\ UNCHANGED <<lo, hi>>
      ELSE /\ high' = CapHigh(h)
           /\ lo' = l /\ hi' = CapHigh(h)
           /\ IF l + 1 < CapHigh(h)
                THEN p_pc' = "bin" /\ UNCHANGED p_ret
                ELSE p_pc' = "done" /\ p_ret' = l

\* while high <= PROBE_MAX: one pass
ExpProbe ==
    /\ p_pc = "exp" /\ high <= PROBE_MAX
    /\ p_probes' = Append(p_probes, high)
    /\ \E ok \in UnitExists(high) :
        /\ p_answers' = p_answers \cup {<<high, ok>>}
        /\ IF ok
            THEN /\ low' = high /\ miss' = 0
                 /\ IF 2 * high <= PROBE_MAX
                      THEN high' = 2 * high /\ UNCHANGED <<p_pc, lo, hi, p_ret>>
                      ELSE AfterExp(high, 2 * high)
            ELSE /\ miss' = miss + 1
                 /\ UNCHANGED low
                 /\ IF miss + 1 >= MISSING_STREAK_ABORT /\ low = 0
                      THEN p_pc' = "done" /\ p_ret' = None /\ UNCHANGED <<high, lo, hi>>
                      ELSE AfterExp(low, high)
    /\ UNCHANGED p_B
    /\ ProbeOnly

\* while lo + 1 < hi: one pass; return lo when the loop ends
BinProbe ==
    /\ p_pc = "bin" /\ lo + 1 < hi
    /\ LET mid == Mid(lo, hi) IN
       /\ p_probes' = Append(p_probes, mid)
       /\ \E ok \in UnitExists(mid) :
             LET nlo == IF ok THEN mid ELSE lo
                 nhi == IF ok THEN hi ELSE mid
             IN /\ p_answers' = p_answers \cup {<<mid, ok>>}
                /\ lo' = nlo /\ hi' = nhi
                /\ IF nlo + 1 < nhi
                     THEN UNCHANGED <<p_pc, p_ret>>
                     ELSE p_pc' = "done" /\ p_ret' = nlo
    /\ UNCHANGED <<p_B, low, high, miss>>
    /\ ProbeOnly

ProbeNext ==
    \/ ExpProbe
    \/ BinProbe

----------------------------------------------------------------------------
\* The search over the contexts: smart_probe_upper_bound. One action is one
\* pass of `for kind, ctx in all_contexts`; the pass that leaves the loop
\* also returns. The server's answers for a context are drawn when the
\* context is reached.

MAX_GUESSES == 120

EARLY_STOP_THRESHOLD == 300

\* the number of pairs in _GUESS_CONTEXTS_ORDERED: 20 + 30 + 30 + 80 + 200 + 50
NUM_GUESSES == 410

\* largest number of discovered contexts handed in
MaxDiscovered == 3

\* for probe_n in (1, 50, 200, 500, 900)
SPOT_UNITS == <<1, 50, 200, 500, 900>>

\* what the server holds under one context: the units from..B
ExistenceFns == {[from |-> f, B |-> b] : f \in {1, 2}, b \in {0, 47, 299, 300, 600}}

\* _unit_exists_with_context for a context with the units ex
ExistsIn(ex, k) == ex.from <= k /\ k <= ex.B

\* _quick_context_ok: the position of the first spot-probe that hits, 0 for none
FirstSpotHit(ex) ==
    IF \E j \in DOMAIN SPOT_UNITS : ExistsIn(ex, SPOT_UNITS[j])
      THEN CHOOSE j \in DOMAIN SPOT_UNITS :
              /\ ExistsIn(ex, SPOT_UNITS[j])
              /\ \A j2 \in 1..(j - 1) : ~ExistsIn(ex, SPOT_UNITS[j2])
      ELSE 0

_quick_context_ok(ex) == FirstSpotHit(ex) # 0

RECURSIVE BinPhase(_, _, _)
BinPhase(ex, l, h) ==
    IF l + 1 < h
      THEN IF ExistsIn(ex, Mid(l, h)) THEN BinPhase(ex, Mid(l, h), h)
                                      ELSE BinPhase(ex, l, Mid(l, h))
      ELSE l

RECURSIVE ExpPhase(_, _, _, _)
ExpPhase(ex, l, h, m) ==
    IF h <= PROBE_MAX /\ ExistsIn(ex, h) THEN ExpPhase(ex, h, 2 * h, 0)
    ELSE IF h <= PROBE_MAX /\ m + 1 >= MISSING_STREAK_ABORT /\ l = 0 THEN None
    ELSE IF l = 0 THEN None
    ELSE BinPhase(ex, l, CapHigh(h))

\* _smart_probe_single_context as a function of the units under the context
_smart_probe_single_context(ex) == ExpPhase(ex, 0, 1, 0)

\* if ctx: only the first entry of all_contexts, ("none", {}), is empty
HasParams_never(i) == FALSE

HasParams(i) == i > 1

\* len(all_contexts): ("none", {}), then the discovered contexts, or the guesses when there are none
NumContexts == 1 + (IF s_disc = 0 THEN NUM_GUESSES ELSE s_disc)

\* best = res if best is None else max(best, res)
MaxBest_latest(b, r) == r

MaxBest(b, r) == IF b = None \/ r > b THEN r ELSE b

NoPass == [i |-> 0, spotted |-> FALSE, spot_hit |-> FALSE, searched |-> FALSE, res |-> None]

InitSmart ==
    /\ s_pc = "loop"
    /\ s_disc \in 0..MaxDiscovered
    /\ s_i = 1
    /\ tried = 0 /\ best = None
    /\ s_results = {}
    /\ s_last = NoPass
    /\ s_ret = None

\* the end of a pass: break, or go on with the next context; after the loop `return best`
EndPass(brk, b) ==
    IF brk \/ s_i = NumContexts
      THEN s_pc' = "done" /\ s_ret' = b /\ UNCHANGED s_i
      ELSE s_i' = s_i + 1 /\ UNCHANGED <<s_pc, s_ret>>

\* if ctx: if not _quick_context_ok(...): tried += 1 ... continue
SkipDeadContext ==
    /\ s_pc = "loop"
    /\ HasParams(s_i)
    /\ \E ex \in ExistenceFns :
          /\ ~_quick_context_ok(ex)
          /\ s_last' = [i |-> s_i, spotted |-> TRUE, spot_hit |-> FALSE,
                        searched |-> FALSE, res |-> None]
    /\ tried' = tried + 1
    /\ EndPass(tried + 1 >= MAX_GUESSES, best)
    /\ UNCHANGED <<s_disc, best, s_results>>
    /\ SmartOnly

\* res = _smart_probe_single_context(...); tried += 1; ...
SearchContext ==
    /\ s_pc = "loop"
    /\ \E ex \in ExistenceFns :
          LET res == _smart_probe_single_context(ex)
              nb  == IF res # None THEN MaxBest(best, res) ELSE best
          IN /\ HasParams(s_i) => _quick_context_ok(ex)
             /\ s_last' = [i |-> s_i, spotted |-> HasParams(s_i),
                           spot_hit |-> HasParams(s_i) /\ _quick_context_ok(ex),
                           searched |-> TRUE, res |-> res]
             /\ best' = nb
             /\ s_results' = IF res # None THEN s_results \cup {res} ELSE s_results
             /\ EndPass((res # None /\ nb >= EARLY_STOP_THRESHOLD) \/ tried + 1 >= MAX_GUESSES, nb)
    /\ tried' = tried + 1
    /\ UNCHANGED s_disc
    /\ SmartOnly

SmartNext ==
    \/ SkipDeadContext
    \/ SearchContext

----------------------------------------------------------------------------
\* enrich_laws: one action is one pass of `for i, law in enumerate(data, 1)`.
\* The law of the pass, what the TOC crawl collects for it and what the probe
\* returns are drawn when the pass starts.

PROBE_MIN_TOC_SIZE == 100

\* if mx < 200 and gnr in KNOWN_MAX
LOW_PROBE_LIMIT == 200

UGB == "10001702"

\* KNOWN_MAX: Dict[str, int]
KNOWN_MAX == [g \in {UGB} |-> 909]

\* largest number of laws in the input file
MaxLaws == 2

\* the laws of the input file: gesetzesnummer ("" when missing), fallback_end
\* (None or an int), unit_type ("" when missing)
Laws ==
    {[gnr |-> g, fallback_end |-> f, unit_type |-> u] :
        g \in {"", UGB, "10002296"}, f \in {None, 77}, u \in {"", "paragraf"}}

\* what collect_all_units returns for one unit type: len(units) and the
\* largest number in them
UnitsArt == {[n |-> 0, mx |-> 0], [n |-> 100, mx |-> 120]}

UnitsPar == {[n |-> 0, mx |-> 0], [n |-> 99, mx |-> 99], [n |-> 100, mx |-> 1], [n |-> 100, mx |-> 500]}

\* what smart_probe_upper_bound returns
ProbeResults == {None, 1, 150, 199, 200, 600}

\* smart_probe_upper_bound(...) or 0
OrZero(r) == IF r = None THEN 0 ELSE r

\* the first use of KNOWN_MAX, after the probe
KnownMaxAfterProbe_always(mx, gnr) == gnr \in DOMAIN KNOWN_MAX

KnownMaxAfterProbe(mx, gnr) == mx < LOW_PROBE_LIMIT /\ gnr \in DOMAIN KNOWN_MAX

\* the second use of KNOWN_MAX: if (mx < 2) and (gnr in KNOWN_MAX)
KnownMaxAtEnd(mx, gnr) == mx < 2 /\ gnr \in DOMAIN KNOWN_MAX

\* lines 392-436 for one law: the boundary, its source and the law afterwards
Enriched(law, art, par, probe) ==
    LET units     == IF art.n > par.n THEN art ELSE par
        unit_type == IF art.n > par.n THEN "artikel" ELSE "paragraf"
        from_toc  == units.n >= PROBE_MIN_TOC_SIZE /\ units.mx > 0
        mx1       == IF from_toc THEN units.mx ELSE OrZero(probe)
        src1      == IF from_toc THEN "toc_crawl" ELSE "smartprobe"
        known1    == ~from_toc /\ KnownMaxAfterProbe(mx1, law.gnr)
        mx2       == IF known1 THEN KNOWN_MAX[law.gnr] ELSE mx1
        src2      == IF known1 THEN "known_max" ELSE src1
        known2    == KnownMaxAtEnd(mx2, law.gnr)
        mx        == IF known2 THEN KNOWN_MAX[law.gnr] ELSE mx2
        source    == IF known2 THEN "known_max" ELSE src2
    IN [gnr |-> law.gnr, skipped |-> "", before |-> law.fallback_end,
        n_units |-> units.n, toc_mx |-> units.mx, probed |-> ~from_toc,
        probe |-> IF from_toc THEN None ELSE probe,
        mx |-> mx, source |-> source, stored |-> mx > 1,
        fallback_end |-> IF mx > 1 /\ (overwrite_existing \/ law.fallback_end = None)
                           THEN mx ELSE law.fallback_end,
        unit_type |-> IF mx > 1 /\ (overwrite_existing \/ law.unit_type = "")
                        THEN unit_type ELSE law.unit_type]

\* a law the loop passes over: `continue` before anything is collected
Skipped(law, why) ==
    [gnr |-> law.gnr, skipped |-> why, before |-> law.fallback_end,
     n_units |-> 0, toc_mx |-> 0, probed |-> FALSE, probe |-> None,
     mx |-> 0, source |-> "", stored |-> FALSE,
     fallback_end |-> law.fallback_end, unit_type |-> law.unit_type]

NoLaw == Skipped([gnr |-> "", fallback_end |-> None, unit_type |-> ""], "none")

InitEnrich ==
    /\ e_pc = "loop"
    /\ e_len \in 0..MaxLaws
    /\ e_i = 1
    /\ overwrite_existing \in BOOLEAN
    /\ changed = 0 /\ unchanged = 0
    /\ e_last = NoLaw

\* if not gnr: continue / the law already has fallback_end and unit_type: continue
SkipLaw ==
    /\ e_pc = "loop" /\ e_i <= e_len
    /\ \E law \in Laws :
          \/ /\ law.gnr = ""
             /\ e_last' = Skipped(law, "no_gnr")
             /\ UNCHANGED unchanged
          \/ /\ law.gnr # ""
             /\ ~overwrite_existing /\ law.fallback_end # None /\ law.unit_type # ""
             /\ e_last' = Skipped(law, "existing")
             /\ unchanged' = unchanged + 1
    /\ e_i' = e_i + 1
    /\ UNCHANGED <<e_pc, e_len, overwrite_existing, changed>>
    /\ EnrichOnly

\* the rest of the pass: collect, probe when the TOC is small, store
EnrichLaw ==
    /\ e_pc = "loop" /\ e_i <= e_len
    /\ \E law \in Laws, art \in UnitsArt, par \in UnitsPar, probe \in ProbeResults :
          /\ law.gnr # ""
          /\ overwrite_existing \/ law.fallback_end = None \/ law.unit_type = ""
          /\ e_last' = Enriched(law, art, par, probe)
          /\ IF Enriched(law, art, par, probe).stored
               THEN changed' = changed + 1 /\ UNCHANGED unchanged
               ELSE unchanged' = unchanged + 1 /\ UNCHANGED changed
    /\ e_i' = e_i + 1
    /\ UNCHANGED <<e_pc, e_len, overwrite_existing>>
    /\ EnrichOnly

\* after the loop: output_path.write_text(...); return changed, unchanged
EnrichReturn ==
    /\ e_pc = "loop" /\ e_i > e_len
    /\ e_pc' = "done"
    /\ UNCHANGED <<e_len, e_i, overwrite_existing, changed, unchanged, e_last>>
    /\ EnrichOnly

EnrichNext ==
    \/ SkipLaw
    \/ EnrichLaw
    \/ EnrichReturn

----------------------------------------------------------------------------
\* The TOC crawl of _discover_probe_contexts and collect_all_units: one action
\* is one pass of `while queue and len(visited) < max_pages`. The links of a
\* page are drawn when the page is fetched; any page may link to any URL, its
\* own included.

\* if len(contexts) >= 60: break
MAX_CONTEXTS == 60

\* largest max_pages
MaxPagesCap == 4

\* largest number of links on one page
MaxLinks == 3

\* The URLs: path_ok is p.path.endswith("NormDokument.wxe"), gnr the
\* Gesetzesnummer of the query, toc whether the query has <param>=0 or a
\* Gliederung or Index key, ctx the (key, value) pairs of the query with a
\* key in _CONTEXT_KEYS and a non-empty value, in the order of the query.
UrlInfo ==
    [u \in {"toc0", "index", "glied_buch1", "unit5_buch1", "glied_teil2", "foreign", "extern"} |->
        CASE u = "toc0"        -> [path_ok |-> TRUE, gnr |-> "G", toc |-> TRUE, ctx |-> << >>]
          [] u = "index"       -> [path_ok |-> TRUE, gnr |-> "G", toc |-> TRUE, ctx |-> << >>]
          [] u = "glied_buch1" -> [path_ok |-> TRUE, gnr |-> "G", toc |-> TRUE, ctx |-> <<"Buch=I">>]
          [] u = "unit5_buch1" -> [path_ok |-> TRUE, gnr |-> "G", toc |-> FALSE, ctx |-> <<"Buch=I">>]
          [] u = "glied_teil2" -> [path_ok |-> TRUE, gnr |-> "G", toc |-> TRUE, ctx |-> <<"Teil=2", "Buch=I">>]
          [] u = "foreign"     -> [path_ok |-> TRUE, gnr |-> "H", toc |-> TRUE, ctx |-> <<"Abschnitt=9">>]
          [] OTHER             -> [path_ok |-> FALSE, gnr |-> "G", toc |-> TRUE, ctx |-> <<"Kapitel=3">>]]

Urls == DOMAIN UrlInfo

\* the law crawled
CrawlGnr == "G"

\* start_urls: _toc_url0(gnr, unit_type) put in front of _root_toc_urls(gnr),
\* which holds the same URL again
start_urls == <<"toc0", "toc0", "index">>

\* list(dict.fromkeys(s)) / the seen_roots loop: the first occurrences, in order
RECURSIVE DedupKeepOrder(_)
DedupKeepOrder(s) ==
    IF s = << >> THEN << >>
    ELSE LET front == DedupKeepOrder(SubSeq(s, 1, Len(s) - 1))
             x     == s[Len(s)]
         IN IF \E k \in DOMAIN front : front[k] = x THEN front ELSE Append(front, x)

InSeq(x, s) == \E k \in DOMAIN s : s[k] = x

\* the pages a fetched URL may hold: its links, in document order
LinkLists == UNION {[1..k -> Urls] : k \in 0..MaxLinks}

\* if not p.path.endswith("NormDokument.wxe"): continue; if gnr differs: continue
SameLaw_any(u) == TRUE

SameLaw(u) == UrlInfo[u].path_ok /\ UrlInfo[u].gnr = CrawlGnr

\* for k, v in qs.items(): collect the pairs not yet in seen_pairs
RECURSIVE AddPairs(_, _, _)
AddPairs(pairs, ctxs, seen) ==
    IF pairs = << >> THEN [contexts |-> ctxs, seen_pairs |-> seen]
    ELSE IF Head(pairs) \in seen THEN AddPairs(Tail(pairs), ctxs, seen)
    ELSE AddPairs(Tail(pairs), Append(ctxs, Head(pairs)), seen \cup {Head(pairs)})

\* for a in soup.find_all("a", href=True): the loop over the links of a page
RECURSIVE ProcessLinks(_, _, _, _, _)
ProcessLinks(links, q, vis, ctxs, seen) ==
    IF links = << >> THEN [queue |-> q, contexts |-> ctxs, seen_pairs |-> seen]
    ELSE LET full == Head(links) IN
         IF ~SameLaw(full) THEN ProcessLinks(Tail(links), q, vis, ctxs, seen)
         ELSE LET added == IF c_fn = "_discover_probe_contexts"
                             THEN AddPairs(UrlInfo[full].ctx, ctxs, seen)
                             ELSE [contexts |-> ctxs, seen_pairs |-> seen]
                  q2    == IF UrlInfo[full].toc /\ full \notin vis /\ ~InSeq(full, q)
                             THEN Append(q, full) ELSE q
              IN ProcessLinks(Tail(links), q2, vis, added.contexts, added.seen_pairs)

InitCrawl ==
    /\ c_fn \in {"_discover_probe_contexts", "collect_all_units"}
    /\ c_pc = "loop"
    /\ max_pages \in 0..MaxPagesCap
    /\ queue = DedupKeepOrder(start_urls)
    /\ visited = {}
    /\ contexts = << >> /\ seen_pairs = {}
    /\ c_fetched = << >>

\* one pass: pop, skip a visited URL, fetch (the request may fail: continue),
\* go through the links
CrawlPass ==
    /\ c_pc = "loop" /\ queue # << >> /\ Cardinality(visited) < max_pages
    /\ LET url == Head(queue) IN
       IF url \in visited
         THEN /\ queue' = Tail(queue)
              /\ UNCHANGED <<c_pc, visited, contexts, seen_pairs, c_fetched>>
         ELSE /\ visited' = visited \cup {url}
              /\ c_fetched' = Append(c_fetched, url)
              /\ \/ /\ queue' = Tail(queue)
                    /\ UNCHANGED <<c_pc, contexts, seen_pairs>>
                 \/ \E links \in LinkLists :
                       LET r == ProcessLinks(links, Tail(queue), visited \cup {url},
                                             contexts, seen_pairs)
                       IN /\ queue' = r.queue
                          /\ contexts' = r.contexts
                          /\ seen_pairs' = r.seen_pairs
                          /\ IF c_fn = "_discover_probe_contexts" /\ Len(r.contexts) >= MAX_CONTEXTS
                               THEN c_pc' = "done"
                               ELSE UNCHANGED c_pc
    /\ UNCHANGED <<c_fn, max_pages>>
    /\ CrawlOnly

\* the loop condition fails: return
CrawlReturn ==
    /\ c_pc = "loop" /\ (queue = << >> \/ Cardinality(visited) >= max_pages)
    /\ c_pc' = "done"
    /\ UNCHANGED <<c_fn, max_pages, queue, visited, contexts, seen_pairs, c_fetched>>
    /\ CrawlOnly

CrawlNext ==
    \/ CrawlPass
    \/ CrawlReturn

----------------------------------------------------------------------------
\* parse_toc of ris_law/toc_parser.py and of ris_abgb/toc_parser.py.
\* A unit identifier is a record [num, let]: the number and the letter after
\* it (0: no letter, 1: "a"); "0" is [num |-> 0, let |-> 0]. A TOC page is
\* what the parsers read from it: the unit links in document order, each
\* with the identifier of its Paragraf parameter and whether its context
\* text carries a repeal marker ("aufgehoben", "weggefallen"); the "§ n"
\* mentions of the text, each with whether a marker follows it; and a range
\* "§ lo bis hi" of the text (<< >>: none).

\* largest number of unit links on the page
MaxTocLinks == 2

\* largest number of "§ n" mentions in the text
MaxTocText == 1

TocIds == {[num |-> 0, let |-> 0], [num |-> 1, let |-> 0], [num |-> 1, let |-> 1], [num |-> 5, let |-> 0]}

TocItems == [id : TocIds, marker : BOOLEAN]

TocRanges == {<< >>, <<0, 1>>, <<1, 3>>}

TocPages ==
    [links : UNION {[1..k -> TocItems] : k \in 0..MaxTocLinks},
     text  : UNION {[1..k -> TocItems] : k \in 0..MaxTocText},
     range : TocRanges]

IdsOf(items) == {items[k].id : k \in DOMAIN items}

MarkedOf(items) == {items[k].id : k \in {j \in DOMAIN items : items[j].marker}}

\* for n in range(start, end + 1): para_ids.append(...)
Expand(range) ==
    IF range = << >> THEN {} ELSE {[num |-> k, let |-> 0] : k \in range[1]..range[2]}

\* _sort_key: (number, letter)
KeyLess(a, b) == a.num < b.num \/ (a.num = b.num /\ a.let < b.let)

\* sorted(set(ids), key=_sort_key)
RECURSIVE SortedIds(_)
SortedIds(S) ==
    IF S = {} THEN << >>
    ELSE LET first == CHOOSE x \in S : \A y \in S : y = x \/ KeyLess(x, y)
         IN <<first>> \o SortedIds(S \ {first})

\* re.findall(r"§\s*(\d+[a-zA-Z]?)", text): the mentions of the text; a range
\* "§ lo bis hi" is itself a mention of lo
TextMentions(page) ==
    IdsOf(page.text) \cup (IF page.range = << >> THEN {} ELSE {[num |-> page.range[1], let |-> 0]})

\* variant: the text mentions are added whatever the link pass found
ParseTocLaw_alwaysText(page, inc) ==
    LET para_ids   == IdsOf(page.links) \cup TextMentions(page)
        aufgehoben == MarkedOf(page.links)
    IN  IF ~inc THEN [ids |-> SortedIds(para_ids), auf |-> << >>]
        ELSE [ids |-> SortedIds(para_ids), auf |-> SortedIds(aufgehoben \cap para_ids)]
\* ris_law/toc_parser.py parse_toc
ParseTocLaw(page, inc) ==
    LET from_links == IdsOf(page.links)
        para_ids   == IF from_links = {} THEN TextMentions(page) ELSE from_links
        aufgehoben == IF from_links = {} /\ inc THEN MarkedOf(page.text)
                                                ELSE MarkedOf(page.links)
    IN IF ~inc
         THEN [ids |-> SortedIds(para_ids), auf |-> << >>]
         ELSE [ids |-> SortedIds(para_ids), auf |-> SortedIds(aufgehoben \cap para_ids)]

\* ris_abgb/toc_parser.py parse_toc
ParseTocAbgb(page, inc) ==
    LET para_ids   == IdsOf(page.links) \cup Expand(page.range) \cup IdsOf(page.text)
        aufgehoben == MarkedOf(page.links)
    IN [ids |-> IF ~inc /\ aufgehoben # {} THEN SortedIds(para_ids \ aufgehoben)
                                           ELSE SortedIds(para_ids),
        auf |-> SortedIds(aufgehoben)]

InitToc ==
    /\ t_fn \in {"ris_law", "ris_abgb"}
    /\ t_pc = "call"
    /\ html \in TocPages
    /\ include_aufgehoben \in BOOLEAN
    /\ t_ids = << >> /\ t_auf = << >>

\* paragraphs, aufgehoben = parse_toc(html, include_aufgehoben=include_aufgehoben)
ParseToc ==
    /\ t_pc = "call"
    /\ LET r == IF t_fn = "ris_law" THEN ParseTocLaw(html, include_aufgehoben)
                                    ELSE ParseTocAbgb(html, include_aufgehoben)
       IN t_ids' = r.ids /\ t_auf' = r.auf
    /\ t_pc' = "returned"
    /\ UNCHANGED <<t_fn, html, include_aufgehoben>>
    /\ TocOnly

TocNext ==
    \/ ParseToc

----------------------------------------------------------------------------
\* The output file of an export: build_complete_numeric (ris_law/full_export.py)
\* and write_jsonl_from_docrefs (ris_law/writer.py) open it with
\* open(out_path, "w", encoding="utf-8") and hand each record to write() as one
\* line; neither calls flush(). The text file object keeps the lines in its
\* buffer and passes them on when the buffer fills or the file is closed.

\* the buffer of a file opened in text mode with the default buffering (bytes)
CHUNK_SIZE == 8192

\* the most lines one export writes
MaxRecords == 4

\* the sizes of a JSON line: a placeholder, a long unit, a unit longer than the buffer
RecordSizes == {300, 5000, 9000}

RECURSIVE Bytes(_)
Bytes(s) == IF s = << >> THEN 0 ELSE Head(s) + Bytes(Tail(s))

\* variant: f.write(...) followed by f.flush()
AfterWrite_flushed(pending, disk, size) ==
    [pending |-> << >>, disk |-> (disk \o pending) \o <<size>>]
\* f.write(line): the buffered lines are passed on first when the new line does
\* not fit beside them, and the buffer is emptied once it holds a full chunk
AfterWrite(pending, disk, size) ==
    LET full == Bytes(pending) + size > CHUNK_SIZE
        p1   == IF full THEN << >> ELSE pending
        d1   == IF full THEN disk \o pending ELSE disk
        p2   == Append(p1, size)
    IN  IF Bytes(p2) >= CHUNK_SIZE THEN [pending |-> << >>, disk |-> d1 \o p2]
        ELSE [pending |-> p2, disk |-> d1]

\* with open(out_path, "w", ...) as f: the file is created or truncated
InitWriter ==
    /\ w_fn \in {"build_complete_numeric", "write_jsonl_from_docrefs"}
    /\ w_pc = "open"
    /\ w_recs = << >> /\ w_pending = << >> /\ w_disk = << >>

\* fout.write(json.dumps(rec, ensure_ascii=False) + "\n")
WriteRecord ==
    /\ w_pc = "open" /\ Len(w_recs) < MaxRecords
    /\ \E size \in RecordSizes :
          LET a == AfterWrite(w_pending, w_disk, size)
          IN  /\ w_recs' = Append(w_recs, size)
              /\ w_pending' = a.pending
              /\ w_disk' = a.disk
    /\ UNCHANGED <<w_fn, w_pc>>
    /\ WriterOnly

\* the with block is left, by the end of the loop or by an exception: close()
CloseFile ==
    /\ w_pc = "open"
    /\ w_pc' = "closed"
    /\ w_disk' = w_disk \o w_pending
    /\ w_pending' = << >>
    /\ UNCHANGED <<w_fn, w_recs>>
    /\ WriterOnly

\* the process is stopped between two operations (killed, power loss): what
\* the buffer holds is gone
Interrupted ==
    /\ w_pc = "open"
    /\ w_pc' = "killed"
    /\ w_pending' = << >>
    /\ UNCHANGED <<w_fn, w_recs, w_disk>>
    /\ WriterOnly

WriterNext ==
    \/ WriteRecord
    \/ CloseFile
    \/ Interrupted

----------------------------------------------------------------------------
\* The extraction of fetch_paragraph_text_via_html (ris_law/html_parser.py): the
\* page is a list of seven candidate containers in the order of the selectors
\* (div#content div.norm, div#content div.dokument, div#content, div.content,
\* article, main, body) and its whole text. A container is absent or has a text
\* of some length and possibly a first h1/h2/h3. A text is named by where it
\* comes from (the number of the container, 0 for the whole page) and its length.

\* if text and len(text) >= 50
MIN_EXTRACT_LEN == 50

\* the number of entries of candidates
NUM_CANDIDATES == 7

\* the most containers present in a page
MaxPresent == 2

Absent == [present |-> FALSE, len |-> 0, h |-> FALSE]

TextLens == {0, MIN_EXTRACT_LEN - 1, MIN_EXTRACT_LEN, MIN_EXTRACT_LEN + 1}

Containers == {Absent} \cup [present : {TRUE}, len : TextLens, h : BOOLEAN]

PresentIn(cands) == {i \in DOMAIN cands : cands[i].present}

\* soup.get_text() holds the text of every container of the page
Pages ==
    {pg \in [cands : [1..NUM_CANDIDATES -> Containers], full : TextLens] :
        /\ Cardinality(PresentIn(pg.cands)) <= MaxPresent
        /\ \A i \in PresentIn(pg.cands) : pg.cands[i].len <= pg.full}

NoPage == [cands |-> [i \in 1..NUM_CANDIDATES |-> Absent], full |-> 0]

NoResult == [heading |-> 0, text |-> [src |-> 0, len |-> 0]]

\* variant: the text must be longer than the minimum
Qualifies_strict(c) == c.present /\ c.len > MIN_EXTRACT_LEN
\* if not cand: continue ... if text and len(text) >= 50
Qualifies(c) == c.present /\ c.len > 0 /\ c.len >= MIN_EXTRACT_LEN

\* the loop over candidates from entry i on, then the whole text; the heading
\* is named by its container, 0 for ""
RECURSIVE Extract(_, _)
Extract(pg, i) ==
    IF i > NUM_CANDIDATES
    THEN [heading |-> 0, text |-> [src |-> 0, len |-> pg.full]]
    ELSE IF Qualifies(pg.cands[i])
         THEN [heading |-> IF pg.cands[i].h THEN i ELSE 0,
               text |-> [src |-> i, len |-> pg.cands[i].len]]
         ELSE Extract(pg, i + 1)

InitExtract == x_pc = "call" /\ x_page \in Pages /\ x_ret = NoResult

ExtractPage ==
    /\ x_pc = "call"
    /\ x_ret' = Extract(x_page, 1)
    /\ x_pc' = "returned"
    /\ UNCHANGED x_page
    /\ ExtractOnly

ExtractNext == ExtractPage

----------------------------------------------------------------------------
\* collect_laws with its state file (ris_law/tools/build_law_index.py). The
\* laws dictionary is modelled by the sequence of the pages handled into it:
\* handle_results appends the numbers of a page to the entries of its laws, so
\* a page handled twice shows. The dictionary holds strings, lists and None
\* only, which json.dump and json.load give back unchanged. A run can be
\* interrupted between any two steps; what it holds in memory is then lost.

\* the most pages the source has
MaxIndexPages == 3

\* the most runs of collect_laws
MaxRuns == 3

NoFile == [last_page |-> -1, laws |-> << >>]

\* load_state: ({}, 0) without a state file, else its laws and last_page
load_state(file) ==
    IF file = NoFile THEN [laws |-> << >>, last_page |-> 0]
    ELSE [laws |-> file.laws, last_page |-> file.last_page]

\* effective_pages = min(total_pages, max_pages), total_pages without a limit
EffectivePages(total_pages, maxp) ==
    IF maxp = None THEN total_pages
    ELSE IF total_pages < maxp THEN total_pages ELSE maxp

\* variant: a resumed run starts again behind page 1
StartPage_restart(last) == 2
\* start_page = max(2, last_page + 1)
StartPage(last) == IF last + 1 > 2 THEN last + 1 ELSE 2

\* before the first run: no state file
InitCollect ==
    /\ k_pc = "ended" /\ k_laws = << >> /\ k_last_page = 0 /\ k_page = 0
    /\ effective_pages = 0 /\ k_why = "" /\ k_runs = 0
    /\ state_file = NoFile /\ tmp_file = NoFile

\* collect_laws is called: load_state, fetch_page(1), the paging information
StartRun ==
    /\ k_pc = "ended" /\ k_runs < MaxRuns
    /\ k_runs' = k_runs + 1
    /\ k_laws' = load_state(state_file).laws
    /\ k_last_page' = load_state(state_file).last_page
    /\ \E first_ok \in BOOLEAN, total_pages \in 1..MaxIndexPages, maxp \in {None, 2} :
          IF first_ok
            THEN /\ k_pc' = "first" /\ k_why' = ""
                 /\ effective_pages' = EffectivePages(total_pages, maxp)
            \* if first_results is None: return laws
            ELSE /\ k_pc' = "ended" /\ k_why' = "page_failed"
                 /\ UNCHANGED effective_pages
    /\ UNCHANGED <<k_page, state_file, tmp_file>>
    /\ CollectOnly

\* if last_page == 0: handle_results(first_results, laws, page=1); last_page = 1
FirstPage ==
    /\ k_pc = "first"
    /\ IF k_last_page = 0
         THEN /\ k_laws' = Append(k_laws, 1)
              /\ k_last_page' = 1
              /\ k_pc' = "dump"
              /\ UNCHANGED k_page
         ELSE /\ k_pc' = "loop"
              /\ k_page' = StartPage(k_last_page)
              /\ UNCHANGED <<k_laws, k_last_page>>
    /\ UNCHANGED <<effective_pages, k_why, k_runs, state_file, tmp_file>>
    /\ CollectOnly

\* save_state: json.dump(data, f) into the temporary file
DumpState ==
    /\ k_pc = "dump"
    /\ tmp_file' = [last_page |-> k_last_page, laws |-> k_laws]
    /\ k_pc' = "replace"
    /\ UNCHANGED <<k_laws, k_last_page, k_page, effective_pages, k_why, k_runs, state_file>>
    /\ CollectOnly

\* save_state: os.replace(tmp_file, STATE_FILE); then on to the next page
ReplaceState ==
    /\ k_pc = "replace"
    /\ state_file' = tmp_file
    /\ tmp_file' = NoFile
    /\ k_pc' = "loop"
    /\ k_page' = StartPage(k_last_page)
    /\ UNCHANGED <<k_laws, k_last_page, effective_pages, k_why, k_runs>>
    /\ CollectOnly

\* one pass of `for page in range(start_page, effective_pages + 1)`
LoadPage ==
    /\ k_pc = "loop" /\ k_page <= effective_pages
    /\ \E ok \in BOOLEAN :
          IF ok
            THEN /\ k_laws' = Append(k_laws, k_page)
                 /\ k_last_page' = k_page
                 /\ k_pc' = "dump"
                 /\ UNCHANGED k_why
            \* if results is None: break
            ELSE /\ k_pc' = "ended" /\ k_why' = "page_failed"
                 /\ UNCHANGED <<k_laws, k_last_page>>
    /\ UNCHANGED <<k_page, effective_pages, k_runs, state_file, tmp_file>>
    /\ CollectOnly

\* the loop is exhausted: return laws
CollectReturn ==
    /\ k_pc = "loop" /\ k_page > effective_pages
    /\ k_pc' = "ended" /\ k_why' = "returned"
    /\ UNCHANGED <<k_laws, k_last_page, k_page, effective_pages, k_runs, state_file, tmp_file>>
    /\ CollectOnly

\* the run is interrupted between two steps
CollectInterrupted ==
    /\ k_pc \in {"first", "loop", "dump", "replace"}
    /\ k_pc' = "ended" /\ k_why' = "interrupted"
    /\ UNCHANGED <<k_laws, k_last_page, k_page, effective_pages, k_runs, state_file, tmp_file>>
    /\ CollectOnly

CollectNext ==
    \/ StartRun
    \/ FirstPage
    \/ DumpState
    \/ ReplaceState
    \/ LoadPage
    \/ CollectReturn
    \/ CollectInterrupted

----------------------------------------------------------------------------
\* build_complete_numeric run twice against a source that answers every
\* request the same way (ris_law/full_export.py, ris_law/html_parser.py). The
\* source fixes, for each unit page, whether resolving fails and which NOR ids
\* the page holds, and for each page fetched, whether the fetch fails, yields
\* no text or a text, and the NOR id found in it. The loop body is the one of
\* the export above, as a function of the source; each record carries the time
\* it was written at.

\* the unit numbers of the exported range, 1..RerunUnits
RerunUnits == 2

\* what fetch_paragraph_text_via_html does for a page: raise, or text and nor
PageAnswers ==
    {[res |-> "fail", nor |-> 0]} \cup [res : {"empty", "text"}, nor : {0} \cup NORS]

\* what the unit page of a number answers: resolving raises, or the NOR ids in
\* it and, when it holds none, the answer to fetching the unit page itself
UnitAnswers ==
    {[res |-> "resolve_fails", nors |-> {}, page |-> [res |-> "fail", nor |-> 0]]}
    \cup {[res |-> "ok", nors |-> S, page |-> [res |-> "fail", nor |-> 0]] :
             S \in (SUBSET NORS) \ {{}}}
    \cup {[res |-> "ok", nors |-> {}, page |-> [res |-> a, nor |-> 0]] :
             a \in {"fail", "empty", "text"}}

Sources ==
    [toc : {1..RerunUnits, 2..RerunUnits},
     unit : [1..RerunUnits -> UnitAnswers],
     doc : [NORS -> PageAnswers]]

NoSource ==
    [toc |-> {}, unit |-> [k \in 1..RerunUnits |-> CHOOSE a \in UnitAnswers : a.res = "resolve_fails"],
     doc |-> [k \in NORS |-> [res |-> "fail", nor |-> 0]]]

\* variant: the ids of a page come in the order the set happens to yield them
NorUrlLists_unordered(toc_url, nors) ==
    IF nors = {} THEN {<<toc_url>>}
    ELSE {[i \in 1..Cardinality(nors) |-> NorUrl(f[i])] :
             f \in {g \in [1..Cardinality(nors) -> nors] :
                       \A i, j \in 1..Cardinality(nors) : i # j => g[i] # g[j]}}
\* the lists resolve_nor_urls_from_toc_url can return for a page: the ids are
\* collected in a set and returned as sorted(nors)
NorUrlLists(toc_url, nors) == {resolve_nor_urls_from_toc_url(toc_url, nors)}

Stamped(rec, now) == [rec |-> rec, retrieved_at |-> now]

\* `for nu in nor_urls` from entry i on, then the no_nor_found placeholder
RECURSIVE DocLoop(_, _, _, _, _, _, _)
DocLoop(src, k, urls, i, seen, wrote, recs) ==
    IF i > Len(urls)
    THEN [seen |-> seen,
          recs |-> IF NeedsPlaceholder(wrote)
                   THEN Append(recs, Rec(k, "no_nor_found", << >>, _make_toc_url(k), 0))
                   ELSE recs]
    ELSE LET nu  == urls[i]
             ans == IF UrlNor(nu) = 0 THEN src.unit[k].page ELSE src.doc[UrlNor(nu)]
             nor == ParsedNor(ans.nor, UrlNor(nu))
             text == IF ans.res = "text" THEN <<"x">> ELSE << >>
         IN  IF UrlNor(nu) # 0 /\ UrlNor(nu) \in seen
             THEN DocLoop(src, k, urls, i + 1, seen, wrote, recs)
             ELSE IF ans.res = "fail"
             THEN DocLoop(src, k, urls, i + 1, seen, wrote,
                          Append(recs, Rec(k, "fetch_failed: e", << >>, nu, UrlNor(nu))))
             ELSE DocLoop(src, k, urls, i + 1, SeenAfter(seen, nor), TRUE,
                          Append(recs, Rec(k, FetchedStatus(text), text, nu, nor)))

\* one pass of `for n in range(start_num, end_num + 1)`
LoopBody(src, k, seen, urls) ==
    IF k \notin src.toc
    THEN [seen |-> seen,
          recs |-> <<Rec(k, "not_in_toc_geltende_fassung", << >>, NoUrl, 0)>>]
    ELSE IF src.unit[k].res = "resolve_fails"
    THEN [seen |-> seen,
          recs |-> <<Rec(k, "resolve_failed: e", << >>, _make_toc_url(k), 0)>>]
    ELSE DocLoop(src, k, urls, 1, seen, FALSE, << >>)

StampAll(recs, now) == [i \in DOMAIN recs |-> Stamped(recs[i], now)]

InitTwice ==
    /\ r_src \in Sources
    /\ r_pc = "run1" /\ r_n = 1 /\ r_seen = {} /\ r_clock = 1
    /\ r_out1 = << >> /\ r_out2 = << >>

\* the running export handles the number r_n
RunUnit ==
    /\ r_pc \in {"run1", "run2"} /\ r_n <= RerunUnits
    /\ \E urls \in NorUrlLists(_make_toc_url(r_n), r_src.unit[r_n].nors) :
          LET b == LoopBody(r_src, r_n, r_seen, urls)
          IN  /\ r_seen' = b.seen
              /\ IF r_pc = "run1"
                   THEN r_out1' = r_out1 \o StampAll(b.recs, r_clock) /\ UNCHANGED r_out2
                   ELSE r_out2' = r_out2 \o StampAll(b.recs, r_clock) /\ UNCHANGED r_out1
    /\ r_n' = r_n + 1
    /\ r_clock' = r_clock + 1
    /\ UNCHANGED <<r_src, r_pc>>
    /\ TwiceOnly

\* return total; the export is then run again with the same arguments
RunReturn ==
    /\ r_pc \in {"run1", "run2"} /\ r_n > RerunUnits
    /\ r_pc' = IF r_pc = "run1" THEN "run2" ELSE "done"
    /\ r_n' = 1
    /\ r_seen' = {}
    /\ UNCHANGED <<r_src, r_clock, r_out1, r_out2>>
    /\ TwiceOnly

TwiceNext ==
    \/ RunUnit
    \/ RunReturn

----------------------------------------------------------------------------
\* Specifications: one per part of the program; the other parts stand still.

vars == <<export_vars, index_vars, http_vars, tools_vars, aux_vars>>

ExportIdle ==
    /\ mode = "idle" /\ pc = "done" /\ n = 1 /\ start_num = 1 /\ end_num = 0
    /\ toc_set = {} /\ seen_nor = {} /\ nor_urls = << >> /\ doc_i = 1
    /\ wrote_for_this_number = FALSE /\ total = 0 /\ out = << >> /\ http_log = << >>
    /\ docrefs = << >> /\ idx = 1
    /\ given_end = None /\ toc_size = 0

IndexIdle ==
    /\ ix_pc = "idle" /\ start_par = 0 /\ max_par = 0 /\ consecutive_miss_limit = 1
    /\ ix_n = 0 /\ ix_ch = 1 /\ all_nors = {} /\ misses = 0 /\ last_hit_at = -1
    /\ found_any_for_n = FALSE /\ probes = << >> /\ net = << >>

HttpIdle ==
    /\ h_fn = "idle" /\ h_tries = 0 /\ h_min_len = -1 /\ h_pc = "idle" /\ h_attempt = 1
    /\ h_last = "" /\ h_exc = "" /\ h_log = << >>

ProbeIdle ==
    /\ p_pc = "idle" /\ p_B = 0 /\ low = 0 /\ high = 1 /\ miss = 0 /\ lo = 0 /\ hi = 0
    /\ p_ret = None /\ p_probes = << >> /\ p_answers = {}

SmartIdle ==
    /\ s_pc = "idle" /\ s_disc = 0 /\ s_i = 1 /\ tried = 0 /\ best = None
    /\ s_results = {} /\ s_last = NoPass /\ s_ret = None

EnrichIdle ==
    /\ e_pc = "idle" /\ e_len = 0 /\ e_i = 1 /\ overwrite_existing = FALSE
    /\ changed = 0 /\ unchanged = 0 /\ e_last = NoLaw

CrawlIdle ==
    /\ c_fn = "idle" /\ c_pc = "idle" /\ max_pages = 0 /\ queue = << >> /\ visited = {}
    /\ contexts = << >> /\ seen_pairs = {} /\ c_fetched = << >>

TocIdle ==
    /\ t_fn = "idle" /\ t_pc = "idle" /\ html = [links |-> << >>, text |-> << >>, range |-> << >>]
    /\ include_aufgehoben = FALSE /\ t_ids = << >> /\ t_auf = << >>

WriterIdle ==
    /\ w_fn = "idle" /\ w_pc = "idle" /\ w_recs = << >> /\ w_pending = << >> /\ w_disk = << >>

ExtractIdle == x_pc = "idle" /\ x_page = NoPage /\ x_ret = NoResult

CollectIdle ==
    /\ k_pc = "idle" /\ k_laws = << >> /\ k_last_page = 0 /\ k_page = 0
    /\ effective_pages = 0 /\ k_why = "" /\ k_runs = 0
    /\ state_file = NoFile /\ tmp_file = NoFile

TwiceIdle ==
    /\ r_src = NoSource /\ r_pc = "idle" /\ r_n = 1 /\ r_seen = {} /\ r_clock = 0
    /\ r_out1 = << >> /\ r_out2 = << >>

AuxIdle == WriterIdle /\ ExtractIdle /\ CollectIdle /\ TwiceIdle

ToolsIdle == ProbeIdle /\ SmartIdle /\ EnrichIdle /\ CrawlIdle /\ TocIdle /\ AuxIdle

\* the full export: build_complete_numeric or the mixed-law loop of write_jsonl_full
Init == InitExport /\ IndexIdle /\ HttpIdle /\ ToolsIdle

Next == ExportNext

Spec == Init /\ [][Next]_vars

\* the index probe
InitIx == InitIndex /\ ExportIdle /\ HttpIdle /\ ToolsIdle

NextIx == IndexNext

SpecIndex == InitIx /\ [][NextIx]_vars

\* the fetch layer
InitFetch == InitHttp /\ ExportIdle /\ IndexIdle /\ ToolsIdle

NextFetch == HttpNext

SpecHttp == InitFetch /\ [][NextFetch]_vars

\* the rest of the program while a part of the boundary tool runs
CoreIdle == ExportIdle /\ IndexIdle /\ HttpIdle /\ AuxIdle

\* the boundary search of one context
InitSingle == InitProbe /\ CoreIdle /\ SmartIdle /\ EnrichIdle /\ CrawlIdle /\ TocIdle

NextSingle == ProbeNext

SpecProbe == InitSingle /\ [][NextSingle]_vars

\* the loops of the search are not suspended forever
SpecProbeFair == SpecProbe /\ WF_vars(NextSingle)

\* the search over the contexts
InitContexts == InitSmart /\ CoreIdle /\ ProbeIdle /\ EnrichIdle /\ CrawlIdle /\ TocIdle

NextContexts == SmartNext

SpecSmart == InitContexts /\ [][NextContexts]_vars

\* enrich_laws
InitLaws == InitEnrich /\ CoreIdle /\ ProbeIdle /\ SmartIdle /\ CrawlIdle /\ TocIdle

NextLaws == EnrichNext

SpecEnrich == InitLaws /\ [][NextLaws]_vars

\* the TOC crawl
InitPages == InitCrawl /\ CoreIdle /\ ProbeIdle /\ SmartIdle /\ EnrichIdle /\ TocIdle

NextPages == CrawlNext

SpecCrawl == InitPages /\ [][NextPages]_vars

\* the crawl loop is not suspended forever
SpecCrawlFair == SpecCrawl /\ WF_vars(NextPages)

\* parse_toc
InitParse == InitToc /\ CoreIdle /\ ProbeIdle /\ SmartIdle /\ EnrichIdle /\ CrawlIdle

NextParse == TocNext

SpecToc == InitParse /\ [][NextParse]_vars

\* the output file of an export
OthersIdle == ExportIdle /\ IndexIdle /\ HttpIdle /\ ProbeIdle /\ SmartIdle /\ EnrichIdle /\ CrawlIdle /\ TocIdle

InitFile == InitWriter /\ OthersIdle /\ ExtractIdle /\ CollectIdle /\ TwiceIdle

NextFile == WriterNext

SpecWriter == InitFile /\ [][NextFile]_vars

\* the extraction of one page
InitPage == InitExtract /\ OthersIdle /\ WriterIdle /\ CollectIdle /\ TwiceIdle

NextPage == ExtractNext

SpecExtract == InitPage /\ [][NextPage]_vars

\* the runs of collect_laws
InitRuns == InitCollect /\ OthersIdle /\ WriterIdle /\ ExtractIdle /\ TwiceIdle

NextRuns == CollectNext

SpecCollect == InitRuns /\ [][NextRuns]_vars

\* two runs of the numeric export against one source
InitRerun == InitTwice /\ OthersIdle /\ WriterIdle /\ ExtractIdle /\ CollectIdle

NextRerun == TwiceNext

SpecTwice == InitRerun /\ [][NextRerun]_vars
----------------------------------------------------------------------------
\* The full export: claims.

RecordsFor(k) == {i \in DOMAIN out : out[i].unit = k}

\* C1: when build_complete_numeric finishes, every number of [start_num,
\* end_num] has exactly one record, so the lines written and the returned
\* total are end_num - start_num + 1.
C1_ExactlyOneRecordPerNumber ==
    (mode = "numeric" /\ pc = "done" /\ start_num <= end_num) =>
        /\ \A k \in start_num..end_num : Cardinality(RecordsFor(k)) = 1
        /\ Len(out) = end_num - start_num + 1
        /\ total = end_num - start_num + 1

\* C2: no number is silently omitted: every number the loop has moved past
\* has at least one record.
C2_NoNumberOmitted ==
    mode = "numeric" => \A k \in start_num..(n - 1) : RecordsFor(k) # {}

\* C2 witness: the run is over and a number whose documents were all already
\* seen has its one record, the closing placeholder.
C2_Witness ==
    /\ mode = "numeric" /\ pc = "done" /\ seen_nor # {}
    /\ \E i \in DOMAIN out :
          /\ out[i].status = "no_nor_found"
          /\ RecordsFor(out[i].unit) = {i}

\* C3: no failure of a single unit leaves that unit's processing: the export
\* never ends by an exception raised while resolving or fetching.
C3_NoFailurePropagates == pc # "raised"

\* C4: no record has both empty text and status ok.
C4_OkHasText ==
    \A i \in DOMAIN out :
        /\ out[i].status = "ok" => out[i].text # << >>
        /\ out[i].text = << >> => out[i].status # "ok"

\* C4 witness: an ok record and an empty_text record have been written.
C4_Witness ==
    \E i, j \in DOMAIN out :
        /\ out[i].status = "ok" /\ out[i].text # << >>
        /\ out[j].status = "empty_text" /\ out[j].text = << >>

NotInTocStep == InRange /\ PidDisp(n) \notin toc_set

Fetched(r) == r.status \in {"ok", "empty_text"}

\* C6: once a document has been fetched and a record written for it, no later
\* number fetches that document again or writes a record with its id.
C6_DocumentProcessedOnce ==
    mode = "numeric" =>
        \A i, j \in DOMAIN out :
            (i < j /\ Fetched(out[i]) /\ out[i].unit < out[j].unit) =>
                /\ out[i].document_number # 0 => out[j].document_number # out[i].document_number
                /\ UrlNor(out[i].url) # 0 => out[j].url # out[i].url

\* a canonical document resolved for the current number
SomeDocumentResolved == \E i \in DOMAIN nor_urls : UrlNor(nor_urls[i]) # 0

\* C7: the no_nor_found placeholder is written for n only when no document
\* resolved for n: whenever at least one document resolved for n, the
\* iteration ends without writing a no_nor_found record.
C7_NoPlaceholderWhenResolved ==
    [][(mode = "numeric" /\ pc = "docs" /\ pc' = "loop" /\ SomeDocumentResolved) =>
          ~(Len(out') = Len(out) + 1 /\ out'[Len(out')].status = "no_nor_found")]_export_vars

\* C8: no two requests are issued without a sleep between them.
C8_PauseBetweenRequests ==
    mode = "numeric" =>
        \A i \in 1..(Len(http_log) - 1) :
            ~(http_log[i].ev = "GET" /\ http_log[i + 1].ev = "GET")

----------------------------------------------------------------------------
\* The index probe: claims.

\* the request found a document id
Hit(p) == p.res = "page" /\ p.nor # 0

\* C9 as stated: the suffixes of a number are probed in the order a, b, c, ...
\* and probing stops at the first suffix that does not exist, however the
\* miss shows up (HTTP error, other exception, page without a document id):
\* every suffix request but the last one of a number found a document.
C9_Original ==
    \A k \in DOMAIN probes :
        /\ probes[k].ch = k - 1
        /\ (1 < k /\ k < Len(probes)) => Hit(probes[k])

\* C9 amended: the suffixes are probed in the order a, b, c, ..., every
\* document id found is recorded, and probing stops at the first suffix whose
\* request is answered with an HTTP error status: nothing is requested for
\* the number after it. Any other miss (another exception, a page without a
\* document id) does not stop the probing: the loop goes on to the next letter.
C9_StopsAtHttpError ==
    /\ \A k \in DOMAIN probes :
          /\ probes[k].ch = k - 1
          /\ Hit(probes[k]) => probes[k].nor \in all_nors
          /\ (1 < k /\ k < Len(probes)) => probes[k].res # "httperror"
    /\ (probes # << >> /\ ix_pc # "letters" /\ Len(probes) < MaxLetters + 1) =>
          (Len(probes) > 1 /\ probes[Len(probes)].res = "httperror")

\* C9 witness: n, na and nb exist, nc answers with an HTTP error while letters
\* are left: a and b are recorded and the suffix loop is over.
C9_Witness ==
    /\ Len(probes) = 4 /\ MaxLetters >= 4 /\ ix_pc = "end_n"
    /\ Hit(probes[1]) /\ Hit(probes[2]) /\ Hit(probes[3])
    /\ probes[4].res = "httperror"
    /\ {probes[2].nor, probes[3].nor} \subseteq all_nors

----------------------------------------------------------------------------
\* The fetch layer: claims.

\* C10: a request answered 404 is never retried: it is the last event of the
\* call, no sleep and no further request follow it.
C10_NotFoundNeverRetried ==
    \A k \in 1..(Len(h_log) - 1) : ~(h_log[k].ev = "GET" /\ h_log[k].status = 404)

\* the requests of the call, in order
Gets == SelectSeq(h_log, LAMBDA e : e.ev = "GET")

\* the answer to the last request made
LastGet == Gets[Len(Gets)]

\* the function accepts the answer and returns it from inside the loop
Acceptable(e) ==
    CASE h_fn = "HttpClient.get" -> HttpClientError(e, h_min_len) = ""
      [] h_fn = "_get_with_retry" -> RequestError(e) = "" /\ e.len > MIN_TEXT_LEN
      [] OTHER -> FALSE

\* why an attempt failed: the exception of the attempt, "TooShort" when
\* _get_with_retry got a body that fails its length test (no exception)
AttemptFailure(e) ==
    CASE h_fn = "HttpClient.get" -> HttpClientError(e, h_min_len)
      [] h_fn = "_get_with_retry" ->
            IF RequestError(e) # "" THEN RequestError(e) ELSE "TooShort"
      [] OTHER -> ""

\* the cause carried by the raised error: raise RisFetchError(...) from
\* last_error / raise last
RaisedCause == IF h_exc = "RisFetchError" THEN h_last ELSE h_exc

\* C11: HttpClient.get and _get_with_retry make at most the configured number
\* of attempts, return at the first acceptable answer, and when every attempt
\* failed raise an error whose cause is the failure of the last attempt (the
\* generic RuntimeError counts as the cause of a last attempt that failed
\* without an exception).
C11_RaisesLastCause ==
    h_fn \in {"HttpClient.get", "_get_with_retry"} =>
        /\ Len(Gets) <= h_tries
        /\ h_pc = "returned" =>
              /\ Acceptable(LastGet)
              /\ \A k \in 1..(Len(Gets) - 1) : ~Acceptable(Gets[k])
        /\ h_pc = "raised" =>
              /\ Len(Gets) = h_tries
              /\ \A k \in 1..Len(Gets) : ~Acceptable(Gets[k])
              /\ \/ RaisedCause = AttemptFailure(LastGet)
                 \/ AttemptFailure(LastGet) = "TooShort" /\ h_exc = "RuntimeError"

\* the minimum body length the running function enforces, -1 for none
EnforcedMinLen ==
    CASE h_fn = "HttpClient.get" -> h_min_len
      [] h_fn = "_get_with_retry" -> MIN_TEXT_LEN
      [] h_fn = "fetch_toc_html" -> TOC_MIN_LEN
      [] OTHER -> -1

\* C12: a fetch that enforces a minimum body length returns only a body of
\* at least that length: a shorter 200 answer is never returned as a success.
C12_NoShortBodyReturned ==
    (h_pc = "returned" /\ EnforcedMinLen # -1) => LastGet.len >= EnforcedMinLen

----------------------------------------------------------------------------
\* The boundary search of one context: claims.

\* C13: for the existence function exists(k) = (k <= B) with
\* 1 <= B <= PROBE_MAX the search returns exactly B; for B = 47 the
\* exponential phase ends with low = 32 and high = 64 and 47 is returned.
C13_ReturnsBoundary ==
    /\ (p_pc = "done" /\ 1 <= p_B /\ p_B <= PROBE_MAX) => p_ret = p_B
    /\ (p_pc \in {"bin", "done"} /\ p_B = 47) => (low = 32 /\ high = 64)

\* the binary phase is over and has returned lo
BinaryDone == p_pc = "done" /\ p_ret # None

\* C14: for any existence function the search ends, no unit number above
\* PROBE_MAX is probed, and every pass of the binary phase makes hi - lo
\* strictly smaller, down to 1 when lo is returned.
C14_BoundedSearch ==
    /\ [](\A k \in DOMAIN p_probes : p_probes[k] >= 1 /\ p_probes[k] <= PROBE_MAX)
    /\ [][BinProbe => (hi' - lo' < hi - lo /\ hi' - lo' >= 1)]_vars
    /\ [](BinaryDone => hi - lo = 1)
    /\ <>(p_pc = "done")

\* C14 witness: with an existence function that answers freely the search
\* went through both phases up to the cap: unit 2048 was found, high was
\* capped at PROBE_MAX, and the binary phase ran down to width 1 and
\* returned a boundary close to 2048.
C14_Witness ==
    /\ p_B = -1 /\ BinaryDone
    /\ low = 2048 /\ high = PROBE_MAX
    /\ Len(p_probes) > 20
    /\ p_ret < 2100
    /\ hi - lo = 1

----------------------------------------------------------------------------
\* The search over the contexts: claims.

\* the largest element of a non-empty set of numbers
SetMax(S) == CHOOSE x \in S : \A y \in S : y <= x

\* C15: smart_probe_upper_bound returns the maximum of the boundaries the
\* searched contexts returned (None when none returned one), and once the
\* running maximum has reached EARLY_STOP_THRESHOLD the loop is over: no
\* further context is spot-probed or searched.
C15_ReturnsMaximum ==
    /\ best = (IF s_results = {} THEN None ELSE SetMax(s_results))
    /\ s_pc = "done" => s_ret = best
    /\ (best # None /\ best >= EARLY_STOP_THRESHOLD) => (s_pc = "done" /\ s_last.i = s_i)

\* C15 witness: three contexts returned the boundaries 47, 299 and 300; the
\* one that returned 300 was the last one tried, 300 is returned, and the
\* loop stopped with contexts left over.
C15_Witness ==
    /\ s_pc = "done" /\ s_ret = 300
    /\ s_results = {47, 299, 300}
    /\ s_last.res = 300
    /\ s_i < NumContexts

\* C16 as stated: every context that is searched, the parameter-free context
\* included, had a spot-probe that found a unit.
C16_Original ==
    s_last.searched => (s_last.spotted /\ s_last.spot_hit)

\* C16 amended: a context with parameters is searched only after one of its
\* spot-probes found a unit, and is not searched when all of them missed;
\* the parameter-free context, the first one tried, is searched without any
\* spot-probe.
C16_SpotProbeBeforeSearch ==
    /\ (s_last.i > 1 /\ s_last.searched) => (s_last.spotted /\ s_last.spot_hit)
    /\ (s_last.spotted /\ ~s_last.spot_hit) => ~s_last.searched
    /\ s_last.i = 1 => (~s_last.spotted /\ s_last.searched)
    /\ s_pc = "loop" => s_last.i = s_i - 1

\* C16 witness: a guessed context whose spot-probes hit (unit 50 exists) was
\* searched, after the parameter-free context and a dead context before it.
C16_Witness ==
    /\ s_disc = 0 /\ s_last.i = 3
    /\ s_last.spot_hit /\ s_last.searched /\ s_last.res = None
    /\ tried = 3

----------------------------------------------------------------------------
\* enrich_laws: claims.

\* C17 as stated: the KNOWN_MAX value is taken only when the probe returned
\* no boundary (and the TOC crawl gave none that could be used), and a
\* boundary the probe returned is what is stored as fallback_end (when a
\* boundary is stored at all: above 1, and no integer fallback_end is kept).
C17_Original ==
    /\ e_last.source = "known_max" => e_last.probe = None
    /\ (e_last.skipped = "" /\ e_last.probe # None /\ e_last.probe > 1
           /\ (overwrite_existing \/ e_last.before = None))
          => e_last.fallback_end = e_last.probe

\* C17 amended: the TOC boundary is taken when the crawl collected at least
\* PROBE_MIN_TOC_SIZE units, otherwise the probe's boundary (0 when there is
\* none); the KNOWN_MAX value of a law replaces a probe boundary below 200
\* and any boundary below 2, and never a probe boundary of 200 or more or a
\* TOC boundary of 2 or more; a law outside KNOWN_MAX keeps what the crawl or
\* the probe gave. The boundary is stored as fallback_end when it is above 1
\* and the law has no integer fallback_end yet or overwriting is on.
C17_KnownMaxBelowLimits ==
    e_last.skipped = "" =>
        LET known == e_last.gnr \in DOMAIN KNOWN_MAX
            found == IF e_last.probed THEN OrZero(e_last.probe) ELSE e_last.toc_mx
            limit == IF e_last.probed THEN LOW_PROBE_LIMIT ELSE 2
        IN /\ e_last.probed = ~(e_last.n_units >= PROBE_MIN_TOC_SIZE /\ e_last.toc_mx > 0)
           /\ (known /\ found < limit) =>
                 (e_last.source = "known_max" /\ e_last.mx = KNOWN_MAX[e_last.gnr])
           /\ ~(known /\ found < limit) =>
                 /\ e_last.mx = found
                 /\ e_last.source = (IF e_last.probed THEN "smartprobe" ELSE "toc_crawl")
           /\ e_last.fallback_end =
                 (IF e_last.mx > 1 /\ (overwrite_existing \/ e_last.before = None)
                    THEN e_last.mx ELSE e_last.before)

\* C17 witness: for the law in KNOWN_MAX the TOC was small and the probe
\* returned the boundary 150: the KNOWN_MAX value 909 was stored instead.
C17_Witness ==
    /\ e_last.gnr = UGB /\ e_last.skipped = ""
    /\ e_last.probed /\ e_last.probe = 150 /\ e_last.n_units = 99
    /\ e_last.source = "known_max" /\ e_last.fallback_end = 909
    /\ changed = 1

----------------------------------------------------------------------------
\* The TOC crawl: claims.

NoDuplicates(s) == \A j, k \in DOMAIN s : j # k => s[j] # s[k]

\* C18: the crawl ends for any link graph; it requests at most max_pages
\* pages and no URL twice, only URLs of the crawled law are queued or
\* requested, and the contexts returned hold every (key, value) pair at most
\* once.
C18_CrawlBounded ==
    /\ [](/\ Len(c_fetched) <= max_pages
          /\ NoDuplicates(c_fetched)
          /\ \A k \in DOMAIN c_fetched : UrlInfo[c_fetched[k]].gnr = CrawlGnr
          /\ \A k \in DOMAIN queue : UrlInfo[queue[k]].gnr = CrawlGnr /\ UrlInfo[queue[k]].path_ok
          /\ NoDuplicates(contexts))
    /\ <>(c_pc = "done")

\* C18 witness: _discover_probe_contexts fetched the two start pages and a
\* page they link to, met the pair Buch=I on two different links and kept it
\* once, and returned after max_pages pages with a URL still queued.
C18_Witness ==
    /\ c_fn = "_discover_probe_contexts" /\ c_pc = "done"
    /\ c_fetched = <<"toc0", "index", "glied_teil2">>
    /\ contexts = <<"Teil=2", "Buch=I">>
    /\ queue = <<"glied_buch1">>
    /\ max_pages = 3

----------------------------------------------------------------------------
\* parse_toc: claims.

\* C19: the identifier of unit 0 is never in the identifier sequence
\* parse_toc returns.
C19_UnitZeroExcluded ==
    t_pc = "returned" => \A k \in DOMAIN t_ids : t_ids[k].num # 0

\* the identifiers whose link carries a repeal marker
MarkedRepealed == MarkedOf(html.links)

\* the identifiers of a returned list
IdsOfSeq(s) == {s[k] : k \in DOMAIN s}

\* C20: with include_aufgehoben off the returned sequence holds no identifier
\* marked repealed while the returned repealed list holds all of them; with
\* it on they are in the sequence and in the repealed list.
C20_RepealedFiltered ==
    t_pc = "returned" =>
        /\ MarkedRepealed \subseteq IdsOfSeq(t_auf)
        /\ IF include_aufgehoben
             THEN MarkedRepealed \subseteq IdsOfSeq(t_ids)
             ELSE MarkedRepealed \cap IdsOfSeq(t_ids) = {}

\* the returned sequence is strictly ascending by (number, letter): sorted, no duplicates
Ascending(s) == \A j, k \in DOMAIN s : j < k => KeyLess(s[j], s[k])

\* C21: parse_toc returns, without duplicates and sorted ascending by
\* (number, letter), the identifiers of the unit links together with every
\* integer of a textual range "a bis b" (nothing being filtered as repealed).
C21_LinksAndRanges ==
    (t_pc = "returned" /\ include_aufgehoben) =>
        /\ Ascending(t_ids)
        /\ (IdsOf(html.links) \cup Expand(html.range)) \subseteq IdsOfSeq(t_ids)

\* C22 as stated: when the link pass found identifiers (more than a near-empty
\* result), the returned sequence holds link-declared identifiers only.
C22_Original ==
    (t_pc = "returned" /\ Cardinality(IdsOf(html.links)) >= 2) =>
        IdsOfSeq(t_ids) \subseteq IdsOf(html.links)

\* C22: parse_toc of ris_law consults the page text only when the link pass
\* found nothing, and otherwise returns link-declared identifiers only;
\* parse_toc of ris_abgb always supplements the link identifiers with the
\* ranges and single mentions of the page text.
C22_TextPass ==
    t_pc = "returned" =>
        /\ (t_fn = "ris_law" /\ IdsOf(html.links) # {}) =>
               IdsOfSeq(t_ids) \subseteq IdsOf(html.links)
        /\ (t_fn = "ris_law" /\ IdsOf(html.links) = {}) =>
               IdsOfSeq(t_ids) = TextMentions(html)
        /\ (t_fn = "ris_abgb" /\ include_aufgehoben) =>
               IdsOfSeq(t_ids) = IdsOf(html.links) \cup Expand(html.range) \cup IdsOf(html.text)

\* ris_law returned link identifiers only although the text mentions another unit
C22_Witness ==
    /\ t_pc = "returned" /\ t_fn = "ris_law"
    /\ IdsOf(html.links) # {}
    /\ ~(TextMentions(html) \subseteq IdsOf(html.links))
    /\ IdsOfSeq(t_ids) = IdsOf(html.links)

\* the status vocabulary of the specification; http_<code> for the codes of Responses
SpecStatuses ==
    {"ok", "empty_text", "not_found", "not_in_toc", "resolve_failed", "fetch_failed"}
    \cup {"http_404", "http_500"}

\* the status strings build_complete_numeric writes; the two failure statuses
\* carry the message of the exception after the colon
NumericStatuses ==
    {"ok", "empty_text", "not_in_toc_geltende_fassung", "no_nor_found",
     "resolve_failed: e", "fetch_failed: e"}

\* the status strings of the mixed-law loop of write_jsonl_full
MixedStatuses == {"ok", "resolve_failed"}

C24_FileHoldsEveryRecord == w_pc = "killed" => w_disk = w_recs

\* the containers whose text is longer than 50 characters
LongerThanMin(pg) == {i \in PresentIn(pg.cands) : pg.cands[i].len > MIN_EXTRACT_LEN}

LeastOf(S) == CHOOSE i \in S : \A j \in S : i <= j

\* C26: the extraction returns the text of the first candidate container whose
\* text exceeds 50 characters, with the heading of that container; if there is
\* none it returns the text of the whole page with an empty heading. (Two texts
\* of different lengths differ; the texts are compared by length so that a
\* container holding the whole page counts as the whole page.)
C26_FirstLongCandidate ==
    x_pc = "returned" =>
        IF LongerThanMin(x_page) # {}
        THEN LET i == LeastOf(LongerThanMin(x_page))
             IN  /\ x_ret.text.len = x_page.cands[i].len
                 /\ x_ret.heading = IF x_page.cands[i].h THEN i ELSE 0
        ELSE /\ x_ret.text.len = x_page.full
             /\ x_ret.heading = 0

\* C27: when the search of one context returns r, a probe of r answered
\* "exists" and a probe of r + 1 answered "absent"; it returns None exactly
\* when the probe of unit 1 answered "absent".
C27_BoundaryWasProbed ==
    p_pc = "done" =>
        /\ p_ret # None => (<<p_ret, TRUE>> \in p_answers /\ <<p_ret + 1, FALSE>> \in p_answers)
        /\ p_ret = None <=> <<1, FALSE>> \in p_answers

\* C28: build_complete_numeric called with an explicit end_num iterates exactly
\* start_num..end_num, however many entries the TOC returned: the range ends
\* at the argument, and the finished export holds records for exactly the
\* numbers start_num..end_num.
C28_ExplicitEndRespected ==
    (mode = "numeric" /\ given_end # None) =>
        /\ end_num = given_end
        /\ pc = "done" => {out[i].unit : i \in DOMAIN out} = start_num..given_end

\* a number is being requested: its base request was made, its loop body runs
Requesting == ix_pc \in {"letters", "end_n"}

\* any hit resets the miss count to zero
HitResetsMisses == [][(ix_pc = "end_n" /\ found_any_for_n) => misses' = 0]_vars

\* C30: once consecutive_miss_limit numbers in a row yielded nothing, no
\* further number is requested, and any hit resets the count to zero.
C30_AbortsAtMissLimit ==
    /\ [](Requesting => misses < consecutive_miss_limit)
    /\ HitResetsMisses

\* the pages 1..k in order, each once
PagesUpTo(k) == [i \in 1..k |-> i]

\* the state file holds the result of handling the pages 1..last_page, each once
StateConsistent ==
    state_file # NoFile =>
        /\ state_file.last_page >= 1
        /\ state_file.laws = PagesUpTo(state_file.last_page)

\* last_page of the state file never decreases, and the file never disappears
LastPageMonotone ==
    [][state_file # NoFile =>
          (state_file' # NoFile /\ state_file'.last_page >= state_file.last_page)]_vars

\* the page a run handles is the one after last_page of the state file
\* (page 1 without a state file)
ContinuesAfterLastPage ==
    [][k_laws' # k_laws /\ k_pc # "ended" =>
          k_laws' = Append(k_laws, load_state(state_file).last_page + 1)]_vars

\* a page that fails to load ends the run and leaves the state file alone
FailureStopsRun ==
    [][(k_why' = "page_failed" /\ (k_pc # "ended" \/ k_runs' # k_runs)) =>
          (k_pc' = "ended" /\ state_file' = state_file)]_vars

\* C29: across any sequence of runs, page failures and interruptions of
\* collect_laws, last_page of the state file never decreases, the stored laws
\* are the result of handling the pages 1..last_page each exactly once, a run
\* continues with the page after last_page, and a page that fails to load
\* stops the run without advancing last_page.
C29_ResumeConsistent ==
    /\ []StateConsistent
    /\ LastPageMonotone
    /\ ContinuesAfterLastPage
    /\ FailureStopsRun

\* the second run was interrupted between writing the temporary file for page
\* 3 and replacing the state file, which still holds the pages 1 and 2
C29_Witness ==
    /\ k_runs = 2 /\ k_pc = "ended" /\ k_why = "interrupted"
    /\ tmp_file = [last_page |-> 3, laws |-> <<1, 2, 3>>]
    /\ state_file = [last_page |-> 2, laws |-> <<1, 2>>]

====
